---- MODULE Spec2Model ----
(***************************************************************************)
(* Export pipeline of EXR-Toolkit (src/app/services/export_runner.py).     *)
(*                                                                         *)
(* ExportManager owns at most one current ExportRunner.  A runner's run()  *)
(* executes on a pool thread: it creates the output directory, validates,  *)
(* resolves the frame list, selects direct copy or the parallel exporter   *)
(* and emits finished.  The parallel exporter submits one task per frame   *)
(* to a ThreadPoolExecutor and drains completions with as_completed; the   *)
(* frame workers, the run thread and the controlling (UI) thread           *)
(* interleave freely.  Every step below is one atomic piece of one         *)
(* thread's code; the stop flag is read exactly where the code reads it.   *)
(***************************************************************************)
EXTENDS Integers, Sequences, FiniteSets, TLC

\* ------------------------------------------------------------------ bounds
MaxRuns == 2          \* runners constructed by one ExportManager
MaxFrames == 5        \* length of a resolved frame list (frames are 1..n)
StressFrames == 2     \* frame-list length when several runs are considered
MaxRejected == 1      \* start_export calls rejected that are recorded

\* The values of os.cpu_count() considered: one core (a single frame worker
\* whatever the frame count) and two (two frame workers from 5 frames on).
CoreCounts == {1, 2}

Runs == 1..MaxRuns
Frames == 1..MaxFrames
NoRunner == 0

Min(a, b) == IF a < b THEN a ELSE b

VARIABLES
  runBound,         \* number of runs this behaviour may construct
  frameBound,       \* longest frame list this behaviour resolves
  rejectBound,      \* rejected start_export calls this behaviour records
  rejected,         \* "Export already in progress" events logged by the manager
  current_runner,   \* ExportManager.current_runner (NoRunner = None)
  constructed,      \* number of ExportRunner objects constructed so far
  pendingFinished,  \* runs whose finished signal is queued for _on_finished
  stop_requested,   \* ExportRunner.stop_requested, per run
  pc,               \* position of run(), per run
  nframes,          \* len(frame_list) resolved by run(), per run
  first,            \* first frame of the list handed to the parallel exporter
  cur,              \* loop variable: frame_num of the loop being executed
  asmFails,         \* _assemble_frame returns (None, {}) for this configuration
  num_workers,      \* max_workers of the frame pool
  futures,          \* per run and frame: state of the frame task
  yielded,          \* futures already yielded by as_completed
  progress,         \* AtomicProgress of the path in execution
  percent,          \* percentage of the last progress event (0 before the first)
  copied,           \* frames written by the direct-copy path
  written,          \* frames written by _write_exr
  oiio_lock,        \* ExportRunner._oiio_lock is held
  finished,         \* sequence of finished events emitted, per run
  late,             \* a progress or log event was emitted after finished
  prog,             \* an AtomicProgress shared by concurrent callers of increment
  sel,              \* a call of can_skip_recompression: its arguments and result
  pre,              \* run() up to its frame list: inputs, file system, events
  asm,              \* one _assemble_frame call: inputs, reads, buffer
  size,             \* a call of a pool-sizing function: arguments and result
  fmt               \* a frame formatted into a pattern and discovered again

mgrVars == <<current_runner, constructed, pendingFinished, rejected>>
runVars == <<pc, nframes, first, cur, asmFails, num_workers, yielded, progress,
             percent, copied>>
taskVars == <<futures, written, oiio_lock>>
boundVars == <<runBound, frameBound, rejectBound>>
caseVars == <<prog, sel, pre, asm, size, fmt>>
vars == <<runBound, frameBound, rejectBound, rejected, current_runner, constructed, pendingFinished,
          stop_requested, pc, nframes, first, cur, asmFails, num_workers,
          futures, yielded, progress, percent, copied, written, oiio_lock,
          finished, late, prog, sel, pre, asm, size, fmt>>

\* ------------------------------------------------------------ event values
Outcome(success, msg, frame) == [success |-> success, msg |-> msg, frame |-> frame]

MsgMkdir == "Could not create output directory"
MsgBlocked == "Export blocked: validation errors"
MsgNoFrames == "No frames to export"
MsgStopped == "Export stopped by user"
MsgFailedAt == "Export failed at frame"
MsgFailed == "Export failed"
MsgSuccess == "Export completed successfully!"

\* self.signals.finished.emit(success, message): the event is recorded and,
\* the connection to ExportManager._on_finished being queued, waits for the
\* manager's thread.
EmitFinished(r, o) ==
  /\ finished' = [finished EXCEPT ![r] = Append(@, o)]
  /\ pendingFinished' = pendingFinished \cup {r}

\* self._log(...) or self.signals.progress.emit(...) of run r.
EmitEvent(r) == late' = [late EXCEPT ![r] = @ \/ Len(finished[r]) > 0]

\* --------------------------------------------------------- AtomicProgress
\* The pairs (completed, total) for which the double (completed / total) * 100
\* lies below the integer 100 * completed / total: 29 / 50 is 0.58 and
\* 0.58 * 100 is 57.99999999999999.  For every other pair with total up to 51
\* the double product truncates to the exact quotient.
FloatBelow == {<<29, 50>>}

\* The value of int((self.completed / self.total) * 100), lines 55 and 60.
get_percent(p) ==
  LET exact == (p.completed * 100) \div p.total IN
    IF <<p.completed, p.total>> \in FloatBelow THEN exact - 1 ELSE exact

\* AtomicProgress.__init__
AtomicProgress(total) == [completed |-> 0, total |-> total]

\* increment counting a frame twice.
increment_twice(p) == [p EXCEPT !.completed = @ + 2]

\* The tracker after AtomicProgress.increment, which returns its get_percent.
increment(p) == [p EXCEPT !.completed = @ + 1]

\* ------------------------------------------------------------------- Init
InitCommon ==
  /\ current_runner = NoRunner
  /\ rejected = 0
  /\ constructed = 0
  /\ pendingFinished = {}
  /\ stop_requested = [r \in Runs |-> FALSE]
  /\ pc = [r \in Runs |-> "none"]
  /\ nframes = [r \in Runs |-> 0]
  /\ first = [r \in Runs |-> 1]
  /\ cur = [r \in Runs |-> 0]
  /\ asmFails = [r \in Runs |-> FALSE]
  /\ num_workers = [r \in Runs |-> 0]
  /\ futures = [r \in Runs |-> [f \in Frames |-> "none"]]
  /\ yielded = [r \in Runs |-> {}]
  /\ progress = [r \in Runs |-> [completed |-> 0, total |-> 0]]
  /\ percent = [r \in Runs |-> 0]
  /\ copied = [r \in Runs |-> {}]
  /\ written = [r \in Runs |-> {}]
  /\ oiio_lock = FALSE
  /\ finished = [r \in Runs |-> <<>>]
  /\ late = [r \in Runs |-> FALSE]

\* The value of prog and of sel where no tracker is shared and no selection
\* is under study.
Unused == "unused"

\* One run, frame lists up to MaxFrames.
Init ==
  /\ InitCommon /\ runBound = 1 /\ frameBound = MaxFrames /\ rejectBound = 0
  /\ prog = Unused /\ sel = Unused /\ pre = Unused /\ asm = Unused
  /\ size = Unused /\ fmt = Unused

\* Successive runs of one ExportManager, frame lists up to StressFrames.
MgrInit ==
  /\ InitCommon /\ runBound = MaxRuns /\ frameBound = StressFrames
  /\ rejectBound = MaxRejected
  /\ prog = Unused /\ sel = Unused /\ pre = Unused /\ asm = Unused
  /\ size = Unused /\ fmt = Unused

\* A stop flag kept by the class: a new runner starts with the flag of the
\* runner constructed before it.
ExportRunner_init_shared(stop, r) ==
  [stop EXCEPT ![r] = r > 1 /\ stop[r - 1]]

\* ---------------------------------------------------------- ExportManager
\* ExportRunner.__init__: a fresh runner, stop_requested = False.
ExportRunner_init(stop, r) == [stop EXCEPT ![r] = FALSE]

\* request_stop written as a toggle of the flag.
request_stop_toggle(stop, r) == [stop EXCEPT ![r] = ~@]

\* ExportRunner.request_stop
request_stop(stop, r) == [stop EXCEPT ![r] = TRUE]

\* start_export without the guard on current_runner: a new runner replaces
\* the active one.
start_export_unguarded(cr, n, stop) ==
  [current_runner |-> n + 1, constructed |-> n + 1,
   stop |-> [stop EXCEPT ![n + 1] = FALSE], started |-> n + 1]

\* ExportManager.start_export as a function of the manager's state: the new
\* current_runner, the number of runners constructed and the stop flags.
start_export(cr, n, stop) ==
  IF cr # NoRunner
  THEN [current_runner |-> cr, constructed |-> n, stop |-> stop, started |-> NoRunner]
  ELSE [current_runner |-> n + 1, constructed |-> n + 1,
        stop |-> ExportRunner_init(stop, n + 1), started |-> n + 1]

\* ExportManager.stop_export as a function of the manager's state.
stop_export(cr, stop) == IF cr # NoRunner THEN request_stop(stop, cr) ELSE stop

\* ExportManager._on_finished
on_finished(cr) == NoRunner

\* A call of start_export; thread_pool.start(runner) lets run() begin.  The
\* "Export already in progress" event of a rejected call is counted.
StartExport ==
  /\ IF current_runner # NoRunner
     THEN rejected < rejectBound
     ELSE constructed < runBound
  /\ LET s == start_export(current_runner, constructed, stop_requested) IN
       /\ current_runner' = s.current_runner
       /\ constructed' = s.constructed
       /\ stop_requested' = s.stop
       /\ pc' = IF s.started # NoRunner
                THEN [pc EXCEPT ![s.started] = "mkdir"]
                ELSE pc
       /\ rejected' = IF s.started = NoRunner THEN rejected + 1 ELSE rejected
  /\ UNCHANGED <<pendingFinished, nframes, first, cur, asmFails, num_workers,
                 yielded, progress, percent, copied, taskVars, finished, late, boundVars,
                 caseVars>>

StopExport ==
  /\ stop_requested' = stop_export(current_runner, stop_requested)
  /\ UNCHANGED <<mgrVars, runVars, taskVars, finished, late, boundVars,
                 caseVars>>

\* The runner object is dropped once run() has returned and the manager has
\* handled its finished signal: its fields and the record of its events go
\* with it.
Release(r) ==
  /\ stop_requested' = [stop_requested EXCEPT ![r] = FALSE]
  /\ pc' = [pc EXCEPT ![r] = "released"]
  /\ nframes' = [nframes EXCEPT ![r] = 0]
  /\ first' = [first EXCEPT ![r] = 1]
  /\ cur' = [cur EXCEPT ![r] = 0]
  /\ asmFails' = [asmFails EXCEPT ![r] = FALSE]
  /\ num_workers' = [num_workers EXCEPT ![r] = 0]
  /\ futures' = [futures EXCEPT ![r] = [f \in Frames |-> "none"]]
  /\ yielded' = [yielded EXCEPT ![r] = {}]
  /\ progress' = [progress EXCEPT ![r] = [completed |-> 0, total |-> 0]]
  /\ percent' = [percent EXCEPT ![r] = 0]
  /\ copied' = [copied EXCEPT ![r] = {}]
  /\ written' = [written EXCEPT ![r] = {}]
  /\ finished' = [finished EXCEPT ![r] = <<>>]
  /\ late' = [late EXCEPT ![r] = FALSE]

\* The queued finished signal of run r reaches ExportManager._on_finished.
OnFinished ==
  \E r \in pendingFinished :
    /\ pendingFinished' = pendingFinished \ {r}
    /\ current_runner' = on_finished(current_runner)
    /\ IF pc[r] = "returned"
       THEN Release(r)
       ELSE UNCHANGED <<stop_requested, runVars, futures, written, finished, late>>
    /\ UNCHANGED <<constructed, rejected, oiio_lock, boundVars,
                 caseVars>>

\* ------------------------------------------------------- ExportRunner.run
\* run() going on to the validation after a failed mkdir has been reported.
run_mkdir_continue(r) ==
  /\ pc[r] = "mkdir"
  /\ \E ok \in BOOLEAN :
       IF ok
       THEN /\ pc' = [pc EXCEPT ![r] = "validate"]
            /\ EmitEvent(r)
            /\ UNCHANGED <<finished, pendingFinished>>
       ELSE /\ pc' = [pc EXCEPT ![r] = "validate"]
            /\ EmitFinished(r, Outcome(FALSE, MsgMkdir, 0))
            /\ UNCHANGED late
  /\ UNCHANGED <<current_runner, constructed, rejected, stop_requested, nframes, first,
                 cur, asmFails, num_workers, yielded, progress, percent, copied,
                 taskVars, boundVars,
                 caseVars>>

\* Lines 188-195: output_dir.mkdir(parents=True, exist_ok=True).
run_mkdir(r) ==
  /\ pc[r] = "mkdir"
  /\ \E ok \in BOOLEAN :
       IF ok
       THEN /\ pc' = [pc EXCEPT ![r] = "validate"]
            /\ EmitEvent(r)
            /\ UNCHANGED <<finished, pendingFinished>>
       ELSE /\ pc' = [pc EXCEPT ![r] = "returned"]
            /\ EmitFinished(r, Outcome(FALSE, MsgMkdir, 0))
            /\ UNCHANGED late
  /\ UNCHANGED <<current_runner, constructed, rejected, stop_requested, nframes, first,
                 cur, asmFails, num_workers, yielded, progress, percent, copied,
                 taskVars, boundVars,
                 caseVars>>

\* Lines 210-229: the validation gate; an exception it raises reaches the
\* handler of lines 264-267.
run_validate(r) ==
  /\ pc[r] = "validate"
  /\ \E res \in {"pass", "errors", "raise"} :
       IF res = "pass"
       THEN /\ pc' = [pc EXCEPT ![r] = "resolve"]
            /\ EmitEvent(r)
            /\ UNCHANGED <<finished, pendingFinished>>
       ELSE /\ pc' = [pc EXCEPT ![r] = "returned"]
            /\ EmitFinished(r, IF res = "errors"
                               THEN Outcome(FALSE, MsgBlocked, 0)
                               ELSE Outcome(FALSE, MsgFailed, 0))
            /\ UNCHANGED late
  /\ UNCHANGED <<current_runner, constructed, rejected, stop_requested, nframes, first,
                 cur, asmFails, num_workers, yielded, progress, percent, copied,
                 taskVars, boundVars,
                 caseVars>>

\* run() without the return of lines 232-234: an empty frame list goes on
\* to the export.
run_resolve_noguard(r) ==
  /\ pc[r] = "resolve"
  /\ \E n \in 0..frameBound :
       /\ nframes' = [nframes EXCEPT ![r] = n]
       /\ pc' = [pc EXCEPT ![r] = "select"]
       /\ EmitEvent(r)
       /\ UNCHANGED <<finished, pendingFinished>>
  /\ UNCHANGED <<current_runner, constructed, rejected, stop_requested, first, cur,
                 asmFails, num_workers, yielded, progress, percent, copied, taskVars,
                 boundVars, caseVars>>

\* Lines 231-246: frame_list = self._resolve_frame_list().
run_resolve(r) ==
  /\ pc[r] = "resolve"
  /\ \E n \in 0..frameBound :
       /\ nframes' = [nframes EXCEPT ![r] = n]
       /\ IF n = 0
          THEN /\ pc' = [pc EXCEPT ![r] = "returned"]
               /\ EmitFinished(r, Outcome(FALSE, MsgNoFrames, 0))
               /\ UNCHANGED late
          ELSE /\ pc' = [pc EXCEPT ![r] = "select"]
               /\ EmitEvent(r)
               /\ UNCHANGED <<finished, pendingFinished>>
  /\ UNCHANGED <<current_runner, constructed, rejected, stop_requested, first, cur,
                 asmFails, num_workers, yielded, progress, percent, copied, taskVars,
                 boundVars,
                 caseVars>>

\* _get_optimal_worker_count with both limits taken inclusively.
get_optimal_worker_count_inclusive(num_frames, available_cores) ==
  IF num_frames <= 5 THEN 1
  ELSE IF num_frames <= 100 THEN Min(4, available_cores)
  ELSE Min(8, available_cores)

\* ExportRunner._get_optimal_worker_count
get_optimal_worker_count(num_frames, available_cores) ==
  IF num_frames < 5 THEN 1
  ELSE IF num_frames < 100 THEN Min(4, available_cores)
  ELSE Min(8, available_cores)

\* Lines 248-262: can_skip_recompression decides the strategy.  A
\* configuration that can skip recompression has a probed primary sub-image
\* and at least one output channel, so _assemble_frame cannot return None
\* for it; any other configuration may (lines 576-586).
run_select(r) ==
  /\ pc[r] = "select"
  /\ \E can_skip \in BOOLEAN, asm_none \in BOOLEAN :
       /\ can_skip => ~asm_none
       /\ asmFails' = [asmFails EXCEPT ![r] = asm_none]
       /\ IF can_skip
          THEN /\ pc' = [pc EXCEPT ![r] = "dc_enter"]
          ELSE /\ pc' = [pc EXCEPT ![r] = "par_enter"]
  /\ first' = [first EXCEPT ![r] = 1]
  /\ EmitEvent(r)
  /\ UNCHANGED <<mgrVars, stop_requested, nframes, cur, num_workers, yielded,
                 progress, percent, copied, taskVars, finished, boundVars,
                 caseVars>>

\* ----------------------------------------------- _export_frames_direct_copy
\* Lines 275-292: progress = AtomicProgress(len(frame_list)), logs.
direct_copy_enter(r) ==
  /\ pc[r] = "dc_enter"
  /\ progress' = [progress EXCEPT ![r] = AtomicProgress(nframes[r])]
  /\ cur' = [cur EXCEPT ![r] = 1]
  /\ pc' = [pc EXCEPT ![r] = "dc_top"]
  /\ EmitEvent(r)
  /\ UNCHANGED <<mgrVars, stop_requested, nframes, first, asmFails, num_workers,
                 yielded, percent, copied, taskVars, finished, boundVars,
                 caseVars>>

\* The direct-copy loop without its stop check.
direct_copy_top_nocheck(r) ==
  /\ pc[r] = "dc_top"
  /\ pc' = [pc EXCEPT ![r] = "dc_copy"]
  /\ UNCHANGED <<mgrVars, stop_requested, nframes, first, cur, asmFails,
                 num_workers, yielded, progress, percent, copied, taskVars,
                 finished, late, boundVars, caseVars>>

\* Lines 295-299: the stop check at the top of each iteration.
direct_copy_top(r) ==
  /\ pc[r] = "dc_top"
  /\ IF stop_requested[r]
     THEN /\ pc' = [pc EXCEPT ![r] = "returned"]
          /\ EmitEvent(r)
          /\ EmitFinished(r, Outcome(FALSE, MsgStopped, 0))
     ELSE /\ pc' = [pc EXCEPT ![r] = "dc_copy"]
          /\ UNCHANGED <<late, finished, pendingFinished>>
  /\ UNCHANGED <<current_runner, constructed, rejected, stop_requested, nframes, first,
                 cur, asmFails, num_workers, yielded, progress, percent, copied,
                 taskVars, boundVars,
                 caseVars>>

\* The fallback handing over the frames after the failed one only
\* (f > frame_num).
direct_copy_frame_skip(r) ==
  /\ pc[r] = "dc_copy"
  /\ \E ok \in BOOLEAN :
       IF ok
       THEN /\ copied' = [copied EXCEPT ![r] = @ \cup {cur[r]}]
            /\ progress' = [progress EXCEPT ![r] = increment(@)]
            /\ percent' = [percent EXCEPT ![r] = get_percent(increment(progress[r]))]
            /\ IF cur[r] < nframes[r]
               THEN /\ cur' = [cur EXCEPT ![r] = @ + 1]
                    /\ pc' = [pc EXCEPT ![r] = "dc_top"]
               ELSE /\ pc' = [pc EXCEPT ![r] = "dc_done"]
                    /\ UNCHANGED cur
            /\ UNCHANGED first
       ELSE /\ first' = [first EXCEPT ![r] = cur[r] + 1]
            /\ pc' = [pc EXCEPT ![r] = "par_enter"]
            /\ UNCHANGED <<copied, progress, percent, cur>>
  /\ EmitEvent(r)
  /\ UNCHANGED <<mgrVars, stop_requested, nframes, asmFails, num_workers,
                 yielded, taskVars, finished, boundVars, caseVars>>

\* Lines 301-315: copy one frame; on failure hand the frames >= frame_num to
\* the parallel exporter.
direct_copy_frame(r) ==
  /\ pc[r] = "dc_copy"
  /\ \E ok \in BOOLEAN :
       IF ok
       THEN /\ copied' = [copied EXCEPT ![r] = @ \cup {cur[r]}]
            /\ progress' = [progress EXCEPT ![r] = increment(@)]
            /\ percent' = [percent EXCEPT ![r] = get_percent(increment(progress[r]))]
            /\ IF cur[r] < nframes[r]
               THEN /\ cur' = [cur EXCEPT ![r] = @ + 1]
                    /\ pc' = [pc EXCEPT ![r] = "dc_top"]
               ELSE /\ pc' = [pc EXCEPT ![r] = "dc_done"]
                    /\ UNCHANGED cur
            /\ UNCHANGED first
       ELSE /\ first' = [first EXCEPT ![r] = cur[r]]
            /\ pc' = [pc EXCEPT ![r] = "par_enter"]
            /\ UNCHANGED <<copied, progress, percent, cur>>
  /\ EmitEvent(r)
  /\ UNCHANGED <<mgrVars, stop_requested, nframes, asmFails, num_workers,
                 yielded, taskVars, finished, boundVars,
                 caseVars>>

\* Lines 317-323: every frame was copied.
direct_copy_done(r) ==
  /\ pc[r] = "dc_done"
  /\ pc' = [pc EXCEPT ![r] = "returned"]
  /\ EmitEvent(r)
  /\ EmitFinished(r, Outcome(TRUE, MsgSuccess, 0))
  /\ UNCHANGED <<current_runner, constructed, rejected, stop_requested, nframes, first,
                 cur, asmFails, num_workers, yielded, progress, percent, copied,
                 taskVars, boundVars,
                 caseVars>>

\* ------------------------------------------------- _export_frames_parallel
\* The frames of the list handed to the parallel exporter.
ParFrames(r) == first[r]..nframes[r]

Running == {"asm", "check2", "write", "in_write", "closing", "raised_stop",
            "raised_err"}
Completed == {"ok", "skip", "err", "cancelled"}

RunningTasks(r) == {f \in Frames : futures[r][f] \in Running}
QueuedTasks(r) == {f \in Frames : futures[r][f] = "queued"}

\* Lines 392-410: worker count, a fresh AtomicProgress, logs.
parallel_enter(r) ==
  /\ pc[r] = "par_enter"
  /\ \E cores \in CoreCounts :
       num_workers' = [num_workers EXCEPT ![r] =
                         get_optimal_worker_count(nframes[r] - first[r] + 1, cores)]
  /\ progress' = [progress EXCEPT ![r] = AtomicProgress(nframes[r] - first[r] + 1)]
  /\ cur' = [cur EXCEPT ![r] = first[r]]
  /\ pc' = [pc EXCEPT ![r] = "submit"]
  /\ EmitEvent(r)
  /\ UNCHANGED <<mgrVars, stop_requested, nframes, first, asmFails, yielded,
                 percent, copied, taskVars, finished, boundVars,
                 caseVars>>

\* Lines 415-418: executor.submit(self._export_frame_wrapper, frame_num).
parallel_submit(r) ==
  /\ pc[r] = "submit"
  /\ futures' = [futures EXCEPT ![r][cur[r]] = "queued"]
  /\ IF cur[r] < nframes[r]
     THEN /\ cur' = [cur EXCEPT ![r] = @ + 1]
          /\ UNCHANGED pc
     ELSE /\ pc' = [pc EXCEPT ![r] = "as_completed"]
          /\ UNCHANGED cur
  /\ UNCHANGED <<mgrVars, stop_requested, nframes, first, asmFails, num_workers,
                 yielded, progress, percent, copied, written, oiio_lock, finished, late,
                 boundVars,
                 caseVars>>

\* The drain loop without the stop check of line 422.
as_completed_nocheck(r) ==
  /\ pc[r] = "as_completed"
  /\ IF (first[r]..nframes[r]) \subseteq yielded[r]
     THEN /\ pc' = [pc EXCEPT ![r] = "par_done"]
          /\ UNCHANGED <<cur, yielded>>
     ELSE \E f \in (first[r]..nframes[r]) \ yielded[r] :
            /\ futures[r][f] \in {"ok", "skip", "err", "cancelled"}
            /\ cur' = [cur EXCEPT ![r] = f]
            /\ yielded' = [yielded EXCEPT ![r] = @ \cup {f}]
            /\ pc' = [pc EXCEPT ![r] = "drain_result"]
  /\ UNCHANGED <<mgrVars, stop_requested, nframes, first, asmFails, num_workers,
                 progress, percent, copied, taskVars, finished, late, boundVars,
                 caseVars>>

\* Lines 421-427: as_completed yields a finished future not yet yielded and
\* the loop body checks the stop flag; or every future has been yielded and
\* the loop and the with block end.  (A finished future stays finished, so
\* the yield is placed at the moment of the check that follows it.)
as_completed(r) ==
  /\ pc[r] = "as_completed"
  /\ IF ParFrames(r) \subseteq yielded[r]
     THEN /\ pc' = [pc EXCEPT ![r] = "par_done"]
          /\ UNCHANGED <<cur, yielded>>
     ELSE \E f \in ParFrames(r) \ yielded[r] :
            /\ futures[r][f] \in Completed
            /\ cur' = [cur EXCEPT ![r] = f]
            /\ yielded' = [yielded EXCEPT ![r] = @ \cup {f}]
            /\ pc' = [pc EXCEPT ![r] = IF stop_requested[r] THEN "fin_stopped"
                                       ELSE "drain_result"]
  /\ UNCHANGED <<mgrVars, stop_requested, nframes, first, asmFails, num_workers,
                 progress, percent, copied, taskVars, finished, late, boundVars,
                 caseVars>>

\* The handler of lines 439-451 without the stop check of line 441.
drain_result_nocheck(r) ==
  /\ pc[r] = "drain_result"
  /\ IF futures[r][cur[r]] = "cancelled"
     THEN /\ pc' = [pc EXCEPT ![r] = "as_completed"]
          /\ UNCHANGED <<progress, percent, late>>
     ELSE IF futures[r][cur[r]] = "err"
     THEN /\ pc' = [pc EXCEPT ![r] = "fin_failed"]
          /\ UNCHANGED <<progress, percent, late>>
     ELSE /\ pc' = [pc EXCEPT ![r] = "as_completed"]
          /\ progress' = [progress EXCEPT ![r] = increment(@)]
          /\ percent' = [percent EXCEPT ![r] = get_percent(increment(progress[r]))]
          /\ EmitEvent(r)
  /\ UNCHANGED <<mgrVars, stop_requested, nframes, first, cur, asmFails,
                 num_workers, yielded, copied, taskVars, finished, boundVars,
                 caseVars>>

\* Lines 429-441: future.cancelled(); future.result() with
\* progress.increment and the progress event; or the task's exception and
\* the handler's check of the stop flag.
drain_result(r) ==
  /\ pc[r] = "drain_result"
  /\ IF futures[r][cur[r]] = "cancelled"
     THEN /\ pc' = [pc EXCEPT ![r] = "as_completed"]
          /\ UNCHANGED <<progress, percent, late>>
     ELSE IF futures[r][cur[r]] = "err"
     THEN /\ pc' = [pc EXCEPT ![r] = IF stop_requested[r] THEN "fin_stopped"
                                     ELSE "fin_failed"]
          /\ UNCHANGED <<progress, percent, late>>
     ELSE /\ pc' = [pc EXCEPT ![r] = "as_completed"]
          /\ progress' = [progress EXCEPT ![r] = increment(@)]
          /\ percent' = [percent EXCEPT ![r] = get_percent(increment(progress[r]))]
          /\ EmitEvent(r)
  /\ UNCHANGED <<mgrVars, stop_requested, nframes, first, cur, asmFails,
                 num_workers, yielded, copied, taskVars, finished, boundVars,
                 caseVars>>

\* shutdown(wait=False) without cancel_futures: queued tasks stay queued.
shutdown_nocancel(futs) == futs

\* executor.shutdown(wait=False, cancel_futures=True): queued tasks are
\* cancelled, running ones are left alone.
shutdown_cancel(futs) ==
  [f \in Frames |-> IF futs[f] = "queued" THEN "cancelled" ELSE futs[f]]

\* The stop branch leaving the loop with break instead of return: the code
\* after the loop runs as well.
finish_stopped_break(r) ==
  /\ pc[r] = "fin_stopped"
  /\ futures' = [futures EXCEPT ![r] =
                   [f \in Frames |-> IF @[f] = "queued" THEN "cancelled" ELSE @[f]]]
  /\ EmitEvent(r)
  /\ EmitFinished(r, Outcome(FALSE, MsgStopped, 0))
  /\ pc' = [pc EXCEPT ![r] = "par_done"]
  /\ UNCHANGED <<current_runner, constructed, rejected, stop_requested, nframes,
                 first, cur, asmFails, num_workers, yielded, progress, percent, copied,
                 written, oiio_lock, boundVars,
                 caseVars>>

\* Lines 424-427 and 442-445: shutdown, log, finished(False, stopped).
finish_stopped(r) ==
  /\ pc[r] = "fin_stopped"
  /\ futures' = [futures EXCEPT ![r] = shutdown_cancel(@)]
  /\ EmitEvent(r)
  /\ EmitFinished(r, Outcome(FALSE, MsgStopped, 0))
  /\ pc' = [pc EXCEPT ![r] = "exit"]
  /\ UNCHANGED <<current_runner, constructed, rejected, stop_requested, nframes, first,
                 cur, asmFails, num_workers, yielded, progress, percent, copied, written,
                 oiio_lock, boundVars,
                 caseVars>>

\* The failure branch submitting the failed frame again instead of ending
\* the run.
finish_failed_retry(r) ==
  /\ pc[r] = "fin_failed"
  /\ futures' = [futures EXCEPT ![r][cur[r]] = "queued"]
  /\ yielded' = [yielded EXCEPT ![r] = @ \ {cur[r]}]
  /\ pc' = [pc EXCEPT ![r] = "as_completed"]
  /\ UNCHANGED <<mgrVars, stop_requested, nframes, first, cur, asmFails,
                 num_workers, progress, percent, copied, written, oiio_lock,
                 finished, late, boundVars, caseVars>>

\* Lines 447-451: shutdown, log, finished(False, failed at frame_num).
finish_failed(r) ==
  /\ pc[r] = "fin_failed"
  /\ futures' = [futures EXCEPT ![r] = shutdown_cancel(@)]
  /\ EmitEvent(r)
  /\ EmitFinished(r, Outcome(FALSE, MsgFailedAt, cur[r]))
  /\ pc' = [pc EXCEPT ![r] = "exit"]
  /\ UNCHANGED <<current_runner, constructed, rejected, stop_requested, nframes, first,
                 cur, asmFails, num_workers, yielded, progress, percent, copied, written,
                 oiio_lock, boundVars,
                 caseVars>>

\* The return inside the with block: ThreadPoolExecutor.__exit__ is
\* shutdown(wait=True), which joins the workers still running a task.
executor_exit(r) ==
  /\ pc[r] = "exit"
  /\ RunningTasks(r) = {}
  /\ IF r \in pendingFinished
     THEN /\ pc' = [pc EXCEPT ![r] = "returned"]
          /\ UNCHANGED <<stop_requested, nframes, first, cur, asmFails,
                         num_workers, yielded, progress, percent, copied, futures,
                         written, finished, late>>
     ELSE Release(r)
  /\ UNCHANGED <<mgrVars, oiio_lock, boundVars,
                 caseVars>>

\* Lines 453-460: the loop ended, the with block joined the pool: logs and
\* finished(True).
parallel_done(r) ==
  /\ pc[r] = "par_done"
  /\ RunningTasks(r) = {}
  /\ pc' = [pc EXCEPT ![r] = "returned"]
  /\ EmitEvent(r)
  /\ EmitFinished(r, Outcome(TRUE, MsgSuccess, 0))
  /\ UNCHANGED <<current_runner, constructed, rejected, stop_requested, nframes, first,
                 cur, asmFails, num_workers, yielded, progress, percent, copied,
                 taskVars, boundVars,
                 caseVars>>

\* ------------------------------------------------------------ frame workers
SetTask(r, f, s) == futures' = [futures EXCEPT ![r][f] = s]

\* A pool thread entering _export_frame without the check of line 473.
worker_dequeue_nocheck(r, f) ==
  /\ futures[r][f] = "queued"
  /\ \A g \in QueuedTasks(r) : f <= g
  /\ Cardinality(RunningTasks(r)) < num_workers[r]
  /\ futures' = [futures EXCEPT ![r][f] = "asm"]
  /\ UNCHANGED <<mgrVars, stop_requested, runVars, written, oiio_lock, finished,
                 late, boundVars, caseVars>>

\* A pool thread takes the oldest queued work item (at most max_workers
\* threads exist) and enters _export_frame_wrapper, lines 473-474: the task
\* returns at once when the stop flag is set.
worker_dequeue(r, f) ==
  /\ futures[r][f] = "queued"
  /\ \A g \in QueuedTasks(r) : f <= g
  /\ Cardinality(RunningTasks(r)) < num_workers[r]
  /\ SetTask(r, f, IF stop_requested[r] THEN "skip" ELSE "asm")
  /\ UNCHANGED <<mgrVars, stop_requested, runVars, written, oiio_lock, finished,
                 late, boundVars,
                 caseVars>>

\* _export_frame, lines 531-543: the stop checks of _export_frame,
\* _assemble_frame and _read_channel_from_file, and the assembly itself,
\* which may log a warning (lines 611, 644, 838).
export_frame_assemble(r, f) ==
  /\ futures[r][f] = "asm"
  /\ SetTask(r, f, IF stop_requested[r] THEN "raised_stop"
                   ELSE IF asmFails[r] THEN "raised_err" ELSE "check2")
  /\ \E warned \in BOOLEAN : IF warned THEN EmitEvent(r) ELSE UNCHANGED late
  /\ UNCHANGED <<mgrVars, stop_requested, runVars, written, oiio_lock, finished,
                 boundVars,
                 caseVars>>

\* _export_frame, lines 546-547.
export_frame_check(r, f) ==
  /\ futures[r][f] = "check2"
  /\ SetTask(r, f, IF stop_requested[r] THEN "raised_stop" ELSE "write")
  /\ UNCHANGED <<mgrVars, stop_requested, runVars, written, oiio_lock, finished,
                 late, boundVars,
                 caseVars>>

\* _write_exr entering its library calls without taking the lock.
write_exr_acquire_nolock(r, f) ==
  /\ futures[r][f] = "write"
  /\ oiio_lock' = TRUE
  /\ futures' = [futures EXCEPT ![r][f] = "in_write"]
  /\ UNCHANGED <<mgrVars, stop_requested, runVars, written, finished, late,
                 boundVars, caseVars>>

\* _write_exr, line 882: with ExportRunner._oiio_lock.
write_exr_acquire(r, f) ==
  /\ futures[r][f] = "write"
  /\ ~oiio_lock
  /\ oiio_lock' = TRUE
  /\ SetTask(r, f, "in_write")
  /\ UNCHANGED <<mgrVars, stop_requested, runVars, written, finished, late,
                 boundVars,
                 caseVars>>

\* _write_exr raising "ImageOutput.create failed" with the lock still held.
write_exr_write_create_leak(r, f) ==
  /\ futures[r][f] = "in_write"
  /\ \E res \in {"ok", "no_handle", "failed"} :
       /\ oiio_lock' = (res = "no_handle")
       /\ IF res = "ok"
          THEN /\ written' = [written EXCEPT ![r] = @ \cup {f}]
               /\ futures' = [futures EXCEPT ![r][f] = "ok"]
               /\ EmitEvent(r)
          ELSE /\ futures' = [futures EXCEPT ![r][f] =
                                IF res = "failed" THEN "closing" ELSE "raised_err"]
               /\ UNCHANGED <<written, late>>
  /\ UNCHANGED <<mgrVars, stop_requested, runVars, finished, boundVars,
                 caseVars>>

\* _write_exr releasing the lock only after a successful close.
write_exr_write_leak(r, f) ==
  /\ futures[r][f] = "in_write"
  /\ \E res \in {"ok", "no_handle", "failed"} :
       IF res = "ok"
       THEN /\ oiio_lock' = FALSE
            /\ written' = [written EXCEPT ![r] = @ \cup {f}]
            /\ futures' = [futures EXCEPT ![r][f] = "ok"]
            /\ EmitEvent(r)
       ELSE /\ futures' = [futures EXCEPT ![r][f] =
                             IF res = "failed" THEN "closing" ELSE "raised_err"]
            /\ UNCHANGED <<oiio_lock, written, late>>
  /\ UNCHANGED <<mgrVars, stop_requested, runVars, finished, boundVars,
                 caseVars>>

\* _write_exr, lines 887-906: create, open, write_image, close; the lock is
\* released on both exits.  After a successful write _export_frame logs the
\* frame (lines 552-556) and the task returns.  When create returns no
\* handle the error is raised at once; when open or write_image fails the
\* handle is still open as the with block is left.
write_exr_write(r, f) ==
  /\ futures[r][f] = "in_write"
  /\ oiio_lock' = FALSE
  /\ \E res \in {"ok", "no_handle", "failed"} :
       IF res = "ok"
       THEN /\ written' = [written EXCEPT ![r] = @ \cup {f}]
            /\ SetTask(r, f, "ok")
            /\ EmitEvent(r)
       ELSE /\ SetTask(r, f, IF res = "failed" THEN "closing" ELSE "raised_err")
            /\ UNCHANGED <<written, late>>
  /\ UNCHANGED <<mgrVars, stop_requested, runVars, finished, boundVars,
                 caseVars>>

\* _write_exr, lines 905-913: the finally clause closes the handle of a
\* failed write, the lock being released already, and the error propagates.
write_exr_finally(r, f) ==
  /\ futures[r][f] = "closing"
  /\ SetTask(r, f, "raised_err")
  /\ UNCHANGED <<mgrVars, stop_requested, runVars, written, oiio_lock, finished,
                 late, boundVars,
                 caseVars>>

\* The wrapper re-raising every exception of _export_frame.
wrapper_except_reraise(r, f) ==
  /\ futures[r][f] \in {"raised_stop", "raised_err"}
  /\ futures' = [futures EXCEPT ![r][f] = "err"]
  /\ UNCHANGED <<mgrVars, stop_requested, runVars, written, oiio_lock, finished,
                 late, boundVars,
                 caseVars>>

\* _export_frame_wrapper, lines 479-483: the exception is suppressed when the
\* stop flag is set, and raised otherwise.
wrapper_except(r, f) ==
  /\ futures[r][f] \in {"raised_stop", "raised_err"}
  /\ SetTask(r, f, IF stop_requested[r] THEN "skip" ELSE "err")
  /\ UNCHANGED <<mgrVars, stop_requested, runVars, written, oiio_lock, finished,
                 late, boundVars,
                 caseVars>>

Next ==
  \/ StartExport
  \/ StopExport
  \/ OnFinished
  \/ \E r \in Runs : run_mkdir(r)
  \/ \E r \in Runs : run_validate(r)
  \/ \E r \in Runs : run_resolve(r)
  \/ \E r \in Runs : run_select(r)
  \/ \E r \in Runs : direct_copy_enter(r)
  \/ \E r \in Runs : direct_copy_top(r)
  \/ \E r \in Runs : direct_copy_frame(r)
  \/ \E r \in Runs : direct_copy_done(r)
  \/ \E r \in Runs : parallel_enter(r)
  \/ \E r \in Runs : parallel_submit(r)
  \/ \E r \in Runs : as_completed(r)
  \/ \E r \in Runs : drain_result(r)
  \/ \E r \in Runs : finish_stopped(r)
  \/ \E r \in Runs : finish_failed(r)
  \/ \E r \in Runs : executor_exit(r)
  \/ \E r \in Runs : parallel_done(r)
  \/ \E r \in Runs, f \in Frames : worker_dequeue(r, f)
  \/ \E r \in Runs, f \in Frames : export_frame_assemble(r, f)
  \/ \E r \in Runs, f \in Frames : export_frame_check(r, f)
  \/ \E r \in Runs, f \in Frames : write_exr_acquire(r, f)
  \/ \E r \in Runs, f \in Frames : write_exr_write(r, f)
  \/ \E r \in Runs, f \in Frames : write_exr_finally(r, f)
  \/ \E r \in Runs, f \in Frames : wrapper_except(r, f)

\* The steps of the run thread and of the frame workers of run r.
RunStep(r) ==
  \/ run_mkdir(r) \/ run_validate(r) \/ run_resolve(r) \/ run_select(r)
  \/ direct_copy_enter(r) \/ direct_copy_top(r) \/ direct_copy_frame(r)
  \/ direct_copy_done(r) \/ parallel_enter(r) \/ parallel_submit(r)
  \/ as_completed(r) \/ drain_result(r) \/ finish_stopped(r)
  \/ finish_failed(r) \/ executor_exit(r) \/ parallel_done(r)

WorkerStep(r) ==
  \E f \in Frames :
    \/ worker_dequeue(r, f) \/ export_frame_assemble(r, f)
    \/ export_frame_check(r, f) \/ write_exr_acquire(r, f)
    \/ write_exr_write(r, f) \/ write_exr_finally(r, f)
    \/ wrapper_except(r, f)

Spec == Init /\ [][Next]_vars

MgrSpec == MgrInit /\ [][Next]_vars

\* One run whose threads are scheduled fairly and whose blocking calls
\* return; the controlling thread (start, stop, signal delivery) is free.
FairSpec ==
  /\ Init
  /\ [][Next]_vars
  /\ \A r \in Runs : WF_vars(RunStep(r)) /\ WF_vars(WorkerStep(r))

\* ------------------------------------------------------------------ claims
Emitted(r) == Len(finished[r]) > 0
Undrained(r) == ParFrames(r) \ yielded[r]
\* The step emits the finished event of run r.
Emits(r) == Len(finished[r]) = 0 /\ Len(finished'[r]) = 1

\* C1: every execution of run() emits finished exactly once: never twice,
\* and once it has left its last statement exactly one event was emitted.
C1_FinishedExactlyOnce ==
  \A r \in Runs :
    /\ Len(finished[r]) <= 1
    /\ pc[r] \in {"exit", "returned"} => Len(finished[r]) = 1
    /\ Len(finished[r]) = 1 => pc[r] \in {"exit", "returned"}

\* A run that fell back from direct copy to the parallel exporter, was
\* stopped there and has returned.
C1_Witness ==
  \E r \in Runs :
    /\ pc[r] = "returned"
    /\ first[r] > 1
    /\ finished[r] = <<Outcome(FALSE, MsgStopped, 0)>>

\* C2: finished(True) is emitted only if every frame of the resolved list was
\* direct-copied or written, and no frame task of that run returned early or
\* was aborted because of the stop flag.
C2_SuccessMeansAllExported ==
  \A r \in Runs :
    \A i \in DOMAIN finished[r] :
      finished[r][i].success =>
        /\ (1..nframes[r]) \subseteq (copied[r] \cup written[r])
        /\ \A f \in Frames : futures[r][f] \notin {"skip", "err", "cancelled"}

\* A successful run over several frames, part direct-copied and part written
\* by the parallel exporter, with a stop requested too late to matter.
C2_Witness ==
  \E r \in Runs :
    /\ finished[r] = <<Outcome(TRUE, MsgSuccess, 0)>>
    /\ copied[r] # {} /\ written[r] # {}
    /\ stop_requested[r]

\* C3 as stated: when finished is emitted in the parallel path with the stop
\* flag set and a completion not yet drained, the event is (False, stopped).
C3_StopMidRunEndsStopped ==
  [][\A r \in Runs :
       (Emits(r) /\ pc[r] \in {"fin_stopped", "fin_failed", "par_done"}
          /\ stop_requested[r] /\ Undrained(r) # {})
       => finished'[r] = <<Outcome(FALSE, MsgStopped, 0)>>]_vars

\* C3 amended: whenever the drain loop reads the flag set (line 422 or 441)
\* the run ends (False, stopped); a run that ends with the flag set and a
\* completion undrained never ends with success, and ends "failed at frame N"
\* only when the handler had read the flag unset for the drained frame N
\* before the stop was requested; frame tasks are submitted only before the
\* drain loop starts.
C3_StopObservedEndsStopped ==
  /\ [][\A r \in Runs :
          (Emits(r) /\ pc[r] \in {"fin_stopped", "fin_failed", "par_done"}
             /\ stop_requested[r] /\ Undrained(r) # {})
          => \/ finished'[r] = <<Outcome(FALSE, MsgStopped, 0)>>
             \/ /\ pc[r] = "fin_failed"
                /\ finished'[r] = <<Outcome(FALSE, MsgFailedAt, cur[r])>>]_vars
  /\ [][\A r \in Runs :
          (stop_requested[r] /\ pc'[r] # pc[r]
             /\ \/ pc[r] = "as_completed" /\ yielded'[r] # yielded[r]
                \/ pc[r] = "drain_result" /\ futures[r][cur[r]] = "err")
          => pc'[r] = "fin_stopped"]_vars
  /\ [][\A r \in Runs :
          (pc[r] = "fin_stopped" /\ pc'[r] # pc[r])
          => finished'[r] = <<Outcome(FALSE, MsgStopped, 0)>>]_vars
  /\ [][\A r \in Runs : \A f \in Frames :
          (futures[r][f] = "none" /\ futures'[r][f] = "queued")
          => pc[r] = "submit" /\ yielded[r] = {}]_vars

\* The run was stopped after two completions were drained while others were
\* not, and ended (False, stopped).
C3_Witness ==
  \E r \in Runs :
    /\ pc[r] = "exit"
    /\ finished[r] = <<Outcome(FALSE, MsgStopped, 0)>>
    /\ progress[r].completed = 2
    /\ Cardinality(yielded[r]) = 3
    /\ Cardinality(Undrained(r)) >= 2

\* C4: when the handler reads the flag unset for a drained task that raised,
\* the run ends (False, failed at that frame); the shutdown leaves no task
\* queued, and after the event no task starts, no completion is drained and
\* the progress counter does not move.
C4_FailFast ==
  /\ [][\A r \in Runs :
          (pc[r] = "drain_result" /\ futures[r][cur[r]] = "err"
             /\ ~stop_requested[r] /\ pc'[r] # pc[r])
          => pc'[r] = "fin_failed"]_vars
  /\ [][\A r \in Runs :
          (pc[r] = "fin_failed" /\ pc'[r] # pc[r])
          => /\ finished'[r] = <<Outcome(FALSE, MsgFailedAt, cur[r])>>
             /\ futures[r][cur[r]] = "err"
             /\ \A f \in Frames : futures'[r][f] # "queued"]_vars
  /\ [][\A r \in Runs :
          (Emitted(r) /\ finished[r][1].msg = MsgFailedAt /\ pc'[r] # "released")
          => /\ yielded'[r] = yielded[r]
             /\ progress'[r] = progress[r]
             /\ \A f \in Frames :
                  /\ futures[r][f] = "cancelled" => futures'[r][f] = "cancelled"
                  /\ futures'[r][f] \in Running => futures[r][f] \in Running]_vars

\* A run that ended "failed at frame 1" with a cancelled task and a task that
\* was still in flight.
C4_Witness ==
  \E r \in Runs :
    /\ finished[r] = <<Outcome(FALSE, MsgFailedAt, 1)>>
    /\ \E f \in Frames : futures[r][f] = "cancelled"
    /\ \E f \in Frames : futures[r][f] \in Running

\* C5 as stated: once the run has drained and reported the write failure of
\* a frame, no worker of the run writes an output file.
C5_NoWriteAfterFailure ==
  [][\A r \in Runs :
       (Emitted(r) /\ finished[r][1].msg = MsgFailedAt /\ ~asmFails[r])
       => written'[r] \subseteq written[r]]_vars

\* C6: "Export stopped by user" is emitted only with the stop flag set; an
\* error raised because a worker read the flag set never becomes the error of
\* its task, and a frame named by "Export failed at frame N" is one whose
\* task raised an error of its own.
C6_StopIsNotFailure ==
  /\ [](\A r \in Runs : \A i \in DOMAIN finished[r] :
          /\ finished[r][i].msg = MsgStopped => stop_requested[r]
          /\ finished[r][i].msg = MsgFailedAt =>
               futures[r][finished[r][i].frame] = "err")
  /\ [][\A r \in Runs : \A f \in Frames :
          futures[r][f] = "raised_stop" =>
            futures'[r][f] \in {"raised_stop", "skip"}]_vars
  /\ [][\A r \in Runs : \A f \in Frames :
          (futures[r][f] # "err" /\ futures'[r][f] = "err") =>
            futures[r][f] = "raised_err" /\ ~stop_requested[r]]_vars

\* A worker raised because of the stop flag while another task had already
\* failed on its own, and the run ended (False, stopped).
C6_Witness ==
  \E r \in Runs :
    /\ finished[r] = <<Outcome(FALSE, MsgStopped, 0)>>
    /\ \E f \in Frames : futures[r][f] = "raised_stop"
    /\ \E f \in Frames : futures[r][f] = "err"

\* C7: under fair scheduling every started run emits finished and returns,
\* whether or not and whenever a stop is requested.
C7_RunTerminates ==
  \A r \in Runs :
    (pc[r] = "mkdir") ~>
      (pc[r] = "released" \/ (pc[r] = "returned" /\ Len(finished[r]) = 1))

\* A stopped run that returned after a worker had waited its turn and
\* written a frame.
C7_Witness ==
  \E r \in Runs :
    /\ pc[r] = "returned"
    /\ stop_requested[r]
    /\ num_workers[r] = 2
    /\ written[r] # {}

\* A run whose finished event the manager has not handled yet.
Unhandled(r) ==
  /\ pc[r] \notin {"none", "released"}
  /\ ~Emitted(r) \/ r \in pendingFinished

\* C8: a start_export call rejected because a run is active changes nothing
\* but the manager's log; a runner whose finished event is not yet handled is
\* the current one, so at most one such runner exists.
C8_StartWhileActiveIsNoOp ==
  /\ [](\A r \in Runs : Unhandled(r) => current_runner = r)
  /\ [][rejected' # rejected =>
          /\ current_runner # NoRunner
          /\ UNCHANGED <<current_runner, constructed, pendingFinished,
                         stop_requested, runVars, taskVars, finished, late>>]_vars

\* A start_export call was rejected while the current run was exporting.
C8_Witness ==
  /\ rejected > 0
  /\ current_runner # NoRunner
  /\ RunningTasks(current_runner) # {}
  /\ ~Emitted(current_runner)

\* C9: stop_export applied twice equals stop_export applied once; with no
\* current runner it changes nothing, and a runner started after it has its
\* flag unset.
C9_StopIdempotent ==
  /\ [](LET once == stop_export(current_runner, stop_requested) IN
          /\ stop_export(current_runner, once) = once
          /\ current_runner = NoRunner => once = stop_requested
          /\ (current_runner = NoRunner /\ constructed < MaxRuns) =>
               LET s == start_export(current_runner, constructed, once) IN
                 ~s.stop[s.started])
  /\ [][(current_runner = NoRunner /\ current_runner' # NoRunner)
          => ~stop_requested'[current_runner']]_vars
  /\ [][\A r \in Runs :
          (~stop_requested[r] /\ stop_requested'[r]) => current_runner = r]_vars

\* The first run was stopped and still has a worker in flight; the second
\* run, started afterwards, is exporting with its flag unset.
C9_Witness ==
  /\ current_runner = 2
  /\ pc[1] = "exit" /\ stop_requested[1]
  /\ ~stop_requested[2] /\ RunningTasks(2) # {}

\* C10 as stated: no progress or log event of a run is emitted after its
\* finished event.
C10_FinishedIsLast == \A r \in Runs : ~late[r]

\* The frame workers inside the with block of _write_exr.
InWrite == {t \in Runs \X Frames : futures[t[1]][t[2]] = "in_write"}

\* The threads inside calls of the image-writing library: the frame workers
\* in the with block of _write_exr or in the close of its finally clause, and
\* the run thread (frame 0) in _export_frame_direct_copy.
LibraryCallers ==
  {t \in Runs \X Frames : futures[t[1]][t[2]] \in {"in_write", "closing"}}
    \cup {t \in Runs \X {0} : pc[t[1]] = "dc_copy"}

\* The positions of run() in the direct-copy loop and in the parallel exporter.
DirectPcs == {"dc_enter", "dc_top", "dc_copy", "dc_done"}
ParallelPcs == {"par_enter", "submit", "as_completed", "drain_result",
                "fin_stopped", "fin_failed", "par_done", "exit"}

\* C11: at every moment at most one frame worker is inside the write
\* critical section of _write_exr (the with block, from create to close), and
\* the lock is held exactly while a worker is inside.
C11_WriteMutualExclusion ==
  /\ Cardinality(InWrite) <= 1
  /\ oiio_lock <=> InWrite # {}

\* One of two frame workers is inside the critical section while the other
\* waits for the lock.
C11_Witness ==
  \E r \in Runs : \E f, g \in Frames :
    /\ num_workers[r] = 2
    /\ futures[r][f] = "in_write"
    /\ futures[r][g] = "write"

\* C12 as stated: every thread inside a call of the image-writing library
\* (create, open, write or copy, close) holds the write lock, in the parallel
\* path and in the direct-copy path.
C12_LibraryCallsHoldLock == LibraryCallers \subseteq InWrite

\* C13: when the direct copy of frame k fails, exactly the frames >= k are
\* handed to the parallel exporter; the frames < k, already copied, stay
\* copied and are not exported again; no frame is copied from then on; and
\* the finished event of the run is emitted by the parallel exporter.
C13_FallbackHandOff ==
  /\ [][\A r \in Runs :
          (pc[r] = "dc_copy" /\ pc'[r] = "par_enter")
          => /\ first'[r] = cur[r]
             /\ copied[r] = 1..(cur[r] - 1)
             /\ copied'[r] = copied[r]]_vars
  /\ [](\A r \in Runs :
          pc[r] \in ParallelPcs
          => /\ ParFrames(r) = (1..nframes[r]) \ copied[r]
             /\ written[r] \subseteq ParFrames(r)
             /\ \A f \in Frames : futures[r][f] # "none" => f \in ParFrames(r))
  /\ [][\A r \in Runs :
          pc[r] \in ParallelPcs
          => /\ pc'[r] \in ParallelPcs \cup {"returned", "released"}
             /\ pc'[r] # "released" => copied'[r] = copied[r] /\ first'[r] = first[r]
             /\ Emits(r) => pc[r] \in {"fin_stopped", "fin_failed", "par_done"}]_vars

\* Frames 1 and 2 were copied, the copy of frame 3 failed, and the parallel
\* exporter wrote frames 3, 4 and 5 and ended the run with success.
C13_Witness ==
  \E r \in Runs :
    /\ finished[r] = <<Outcome(TRUE, MsgSuccess, 0)>>
    /\ copied[r] = {1, 2}
    /\ written[r] = {3, 4, 5}

\* C14: the parallel exporter is entered at most once per run, from the
\* strategy selection or from a failed direct copy; once it is entered run()
\* never returns to the direct-copy loop; and a frame task that has completed
\* (failed, skipped, cancelled or written) is never submitted or run again.
C14_SwitchOnceOneWay ==
  /\ [][\A r \in Runs :
          /\ pc[r] \in ParallelPcs => pc'[r] \notin DirectPcs \cup {"select"}
          /\ (pc'[r] = "par_enter" /\ pc[r] # "par_enter")
               => pc[r] \in {"select", "dc_copy"}]_vars
  /\ [][\A r \in Runs : \A f \in Frames :
          /\ (futures[r][f] \in Completed /\ pc'[r] # "released")
               => futures'[r][f] = futures[r][f]
          /\ (futures'[r][f] = "queued" /\ futures[r][f] # "queued")
               => futures[r][f] = "none" /\ pc[r] = "submit"]_vars

\* The direct copy failed at frame 2 and the parallel exporter then failed at
\* frame 3 and ended the run.
C14_Witness ==
  \E r \in Runs :
    /\ first[r] = 2
    /\ finished[r] = <<Outcome(FALSE, MsgFailedAt, 3)>>
    /\ futures[r][3] = "err"

\* C15: in the direct-copy loop, when the stop flag is set as the iteration
\* of frame f begins, the run ends (False, stopped) without copying f; a run
\* stopped there has copied exactly the frames before f, and they stay.
C15_DirectCopyStop ==
  /\ [][\A r \in Runs :
          (pc[r] = "dc_top" /\ stop_requested[r] /\ pc'[r] # pc[r])
          => /\ pc'[r] = "returned"
             /\ finished'[r] = <<Outcome(FALSE, MsgStopped, 0)>>
             /\ copied'[r] = copied[r]]_vars
  /\ [](\A r \in Runs :
          (pc[r] = "returned" /\ finished[r] = <<Outcome(FALSE, MsgStopped, 0)>>
             /\ num_workers[r] = 0)
          => /\ copied[r] = 1..(cur[r] - 1)
             /\ written[r] = {})
  /\ [][\A r \in Runs :
          (pc[r] = "returned" /\ pc'[r] # "released") => copied'[r] = copied[r]]_vars

\* A direct-copy run of five frames was stopped as the iteration of frame 3
\* began.
C15_Witness ==
  \E r \in Runs :
    /\ pc[r] = "returned"
    /\ finished[r] = <<Outcome(FALSE, MsgStopped, 0)>>
    /\ nframes[r] = 5 /\ cur[r] = 3 /\ copied[r] = {1, 2}
    /\ num_workers[r] = 0

\* C16 as stated: the percentages carried by the progress events of a run
\* never decrease.
C16_ProgressMonotone ==
  [][\A r \in Runs : pc'[r] # "released" => percent'[r] >= percent[r]]_vars

\* Every frame of the resolved list was copied or written.
AllFramesDone(r) == (1..nframes[r]) \subseteq (copied[r] \cup written[r])

\* C17 as stated: when a run with a non-empty frame list has ended, 100 was
\* reported if and only if every resolved frame succeeded; percentages lie
\* in 0..100 and completed never exceeds total.
C17_HundredIffAllSucceeded ==
  \A r \in Runs :
    /\ percent[r] \in 0..100
    /\ progress[r].completed <= progress[r].total
    /\ (Emitted(r) /\ nframes[r] > 0) => (percent[r] = 100 <=> AllFramesDone(r))

\* C17 amended: 100 is reported only if every resolved frame succeeded, and
\* a run that has ended reported 100 if and only if it ended with success;
\* percentages lie in 0..100 and completed never exceeds total.
C17_HundredOnlyIfAllSucceeded ==
  \A r \in Runs :
    /\ percent[r] \in 0..100
    /\ progress[r].completed <= progress[r].total
    /\ percent[r] = 100 => AllFramesDone(r)
    /\ (Emitted(r) /\ nframes[r] > 0) =>
         (percent[r] = 100 <=> finished[r][1].success)

\* A run that fell back to the parallel exporter ended with success and had
\* reported 50 and then 100.
C17_Witness ==
  \E r \in Runs :
    /\ finished[r] = <<Outcome(TRUE, MsgSuccess, 0)>>
    /\ first[r] = 4 /\ nframes[r] = 5
    /\ percent[r] = 100

\* ------------------------------------- AtomicProgress under concurrent calls
\* Callers of AtomicProgress.increment on one shared tracker.  Each call takes
\* self.lock, executes self.completed += 1 as a read followed by a write,
\* computes the returned percentage and releases the lock.
MaxTotal == 50
MaxCallers == 2
Callers == 1..MaxCallers

exportVars == <<runBound, frameBound, rejectBound, rejected, current_runner,
                constructed, pendingFinished, stop_requested, pc, nframes,
                first, cur, asmFails, num_workers, futures, yielded, progress,
                percent, copied, written, oiio_lock, finished, late>>

\* An export that never starts: the manager constructs no runner.
Idle == InitCommon /\ runBound = 0 /\ frameBound = 0 /\ rejectBound = 0

\* A tracker AtomicProgress(total) that no thread has called yet.
SharedProgress(total) ==
  [completed |-> 0, total |-> total, lock |-> {},
   at |-> [t \in Callers |-> "idle"], reg |-> [t \in Callers |-> 0],
   calls |-> 0, returned |-> <<>>]

ProgInit ==
  /\ Idle /\ sel = Unused /\ pre = Unused /\ asm = Unused /\ size = Unused
  /\ fmt = Unused
  /\ \E total \in 1..MaxTotal : prog = SharedProgress(total)

\* `with self.lock:` of increment (line 52), entered by a thread whose frame
\* completed; a tracker is called once per frame, total times at most.
inc_acquire(t) ==
  /\ prog.at[t] = "idle" /\ prog.lock = {} /\ prog.calls < prog.total
  /\ prog' = [prog EXCEPT !.lock = {t}, !.at[t] = "held", !.calls = @ + 1]
  /\ UNCHANGED <<exportVars, sel, pre, asm, size, fmt>>

\* self.completed += 1, the read and the addition (line 53).
inc_load(t) ==
  /\ prog.at[t] = "held"
  /\ prog' = [prog EXCEPT !.reg[t] = increment(prog).completed,
                          !.at[t] = "loaded"]
  /\ UNCHANGED <<exportVars, sel, pre, asm, size, fmt>>

\* self.completed += 1, the write (line 53).
inc_store(t) ==
  /\ prog.at[t] = "loaded"
  /\ prog' = [prog EXCEPT !.completed = prog.reg[t], !.at[t] = "stored"]
  /\ UNCHANGED <<exportVars, sel, pre, asm, size, fmt>>

\* return int((self.completed / self.total) * 100) and the end of the with
\* block (line 55).
inc_return(t) ==
  /\ prog.at[t] = "stored"
  /\ prog' = [prog EXCEPT !.returned = Append(@, get_percent(prog)),
                          !.lock = @ \ {t}, !.at[t] = "idle"]
  /\ UNCHANGED <<exportVars, sel, pre, asm, size, fmt>>

ProgNext ==
  \E t \in Callers :
    inc_acquire(t) \/ inc_load(t) \/ inc_store(t) \/ inc_return(t)

ProgSpec == ProgInit /\ [][ProgNext]_vars

\* The number of calls that returned v, and the number of k in 1..n whose
\* floor(k / total * 100) is v.
ReturnedTimes(v) ==
  Cardinality({i \in 1..Len(prog.returned) : prog.returned[i] = v})
FloorTimes(v, n) ==
  Cardinality({k \in 1..n : (k * 100) \div prog.total = v})

\* C18: once the N calls of increment made so far have all returned,
\* completed is N and the returned values are floor(k / total * 100) for
\* k = 1..N, each k exactly once.
C18_NoLostUpdate ==
  (\A t \in Callers : prog.at[t] = "idle") =>
    /\ prog.completed = prog.calls
    /\ \A v \in 0..100 : ReturnedTimes(v) = FloorTimes(v, prog.calls)

\* --------------------------------------------------- can_skip_recompression
\* A call of ExportRunner.can_skip_recompression and the strategy run()
\* takes from its result.  An Optional value is a sequence of length 0 (None)
\* or 1; lists are sequences; a source channel is its name and an attribute
\* is its name and value.
MaxChannels == 2
MaxAttrs == 1
SeqIds == {"A", "B"}
ChannelNames == {"R", "G"}
AttrNames == {"owner", "software"}
AttrValues == {"v1", "v2"}
StoredCompressions == {"zip", "ZIP"}
TargetCompressions == {"zip", "ZIP", "none"}

ListsOf(S, n) == UNION {[1..k -> S] : k \in 0..n}
Optional(S) == {<<>>} \cup {<<x>> : x \in S}

\* core.types: ChannelSourceRef, OutputChannel, SubImageProbe, FileProbe,
\* SequenceSpec and ExportSpec, with the fields can_skip_recompression reads.
OutputChannels ==
  [output_name : ChannelNames,
   source : [sequence_id : SeqIds, channel_name : ChannelNames],
   override_format : Optional({"half"})]
SubImageProbes ==
  [channels : {<<"R">>, <<"R", "G">>},
   attributes : ListsOf([name : AttrNames, value : {"v1"}], MaxAttrs),
   compression : Optional(StoredCompressions)]
FileProbes == [subimages : Optional(SubImageProbes)]
SequenceSpecs == [static_probe : Optional(FileProbes)]
ExportSpecs ==
  [output_channels : ListsOf(OutputChannels, MaxChannels),
   output_attributes : ListsOf([name : AttrNames, value : AttrValues], MaxAttrs),
   compression : TargetCompressions]

\* Sequence B of every project studied: probed, channels R and G, zip.
SequenceB ==
  [static_probe |->
     <<[subimages |-> <<[channels |-> <<"R", "G">>, attributes |-> <<>>,
                         compression |-> <<"zip">>]>>]>>]

\* str.lower() on the compression names of the model.
lower(s) == IF s = "ZIP" THEN "zip" ELSE s

\* AttributeSet.get_by_name: the attribute found, or None.
get_by_name(attributes, name) ==
  LET found == {i \in DOMAIN attributes : attributes[i].name = name}
  IN IF found = {} THEN <<>>
     ELSE <<attributes[CHOOSE i \in found : \A j \in found : i <= j]>>

\* OiioAdapter.get_compression_from_probe(probe, subimage_index): the
\* compression name stored for that sub-image of the probe, or None.
get_compression_from_probe(probe, subimage_index) ==
  probe.subimages[subimage_index + 1].compression

ReasonPolicy == "Compression policy: always recompress"
ReasonSequences == "Multiple source sequences"
ReasonNotProbed == "Source sequence not found or not probed"
ReasonNoSubimage == "Source file has no main subimage"
ReasonChannels == "Output is subset/superset of source channels"
ReasonCompression == "Compression mismatch"
ReasonAttrCount == "Attribute count mismatch"
ReasonAttrName == "Attribute modified or added"
ReasonOverride == "Output channel format override present"
ReasonCanSkip == "Can skip recompression: identical copy possible"

Result(can_skip, reason) == [can_skip |-> can_skip, reason |-> reason]

\* Check 5 (lines 174-179) and the success result.
check_overrides(export_spec) ==
  IF \E i \in DOMAIN export_spec.output_channels :
       export_spec.output_channels[i].override_format # <<>>
  THEN Result(FALSE, ReasonOverride)
  ELSE Result(TRUE, ReasonCanSkip)

\* Check 4 comparing the value of every output attribute with the source's.
check_attributes_values(export_spec, source_subimage) ==
  LET source_attrs == source_subimage.attributes
      output_attrs == export_spec.output_attributes
  IN IF Len(source_attrs) # Len(output_attrs)
     THEN Result(FALSE, ReasonAttrCount)
     ELSE IF \E i \in DOMAIN output_attrs :
               \/ get_by_name(source_attrs, output_attrs[i].name) = <<>>
               \/ get_by_name(source_attrs, output_attrs[i].name)[1].value
                    # output_attrs[i].value
          THEN Result(FALSE, ReasonAttrName)
          ELSE check_overrides(export_spec)

\* Check 4 (lines 157-172).
check_attributes(export_spec, source_subimage) ==
  LET source_attrs == source_subimage.attributes
      output_attrs == export_spec.output_attributes
  IN IF Len(source_attrs) # Len(output_attrs)
     THEN Result(FALSE, ReasonAttrCount)
     ELSE IF \E i \in DOMAIN output_attrs :
               get_by_name(source_attrs, output_attrs[i].name) = <<>>
          THEN Result(FALSE, ReasonAttrName)
          ELSE check_overrides(export_spec)

\* Check 3 (lines 145-155).
check_compression(export_spec, static_probe, source_subimage) ==
  LET source_compression == get_compression_from_probe(static_probe, 0)
      source_comp_normalized ==
        IF source_compression # <<>> THEN lower(source_compression[1])
        ELSE "none"
      target_comp_normalized == lower(export_spec.compression)
  IN IF source_comp_normalized # target_comp_normalized
     THEN Result(FALSE, ReasonCompression)
     ELSE check_attributes(export_spec, source_subimage)

\* Check 2 made after the compression check instead of before it.
check_channels_late(export_spec, static_probe, source_subimage) ==
  LET source_channel_names ==
        {source_subimage.channels[i] : i \in DOMAIN source_subimage.channels}
      output_channel_names ==
        {export_spec.output_channels[i].source.channel_name :
           i \in DOMAIN export_spec.output_channels}
      source_compression == get_compression_from_probe(static_probe, 0)
      source_comp_normalized ==
        IF source_compression # <<>> THEN lower(source_compression[1])
        ELSE "none"
  IN IF source_comp_normalized # lower(export_spec.compression)
     THEN Result(FALSE, ReasonCompression)
     ELSE IF source_channel_names # output_channel_names
     THEN Result(FALSE, ReasonChannels)
     ELSE check_attributes(export_spec, source_subimage)

\* Check 2 accepting an output that uses a subset of the source's channels.
check_channels_subset(export_spec, static_probe, source_subimage) ==
  LET source_channel_names ==
        {source_subimage.channels[i] : i \in DOMAIN source_subimage.channels}
      output_channel_names ==
        {export_spec.output_channels[i].source.channel_name :
           i \in DOMAIN export_spec.output_channels}
  IN IF ~(output_channel_names \subseteq source_channel_names)
     THEN Result(FALSE, ReasonChannels)
     ELSE check_compression(export_spec, static_probe, source_subimage)

\* Check 2 (lines 135-143).
check_channels(export_spec, static_probe, source_subimage) ==
  LET source_channel_names ==
        {source_subimage.channels[i] : i \in DOMAIN source_subimage.channels}
      output_channel_names ==
        {export_spec.output_channels[i].source.channel_name :
           i \in DOMAIN export_spec.output_channels}
  IN IF source_channel_names # output_channel_names
     THEN Result(FALSE, ReasonChannels)
     ELSE check_compression(export_spec, static_probe, source_subimage)

\* FileProbe.main_subimage
main_subimage(probe) == probe.subimages

\* ExportRunner.can_skip_recompression, checks 0 and 1 (lines 114-133) and
\* the checks that follow them.
can_skip_recompression(export_spec, sequences, compression_policy) ==
  LET source_seq_ids ==
        {export_spec.output_channels[i].source.sequence_id :
           i \in DOMAIN export_spec.output_channels}
  IN IF compression_policy = "always" THEN Result(FALSE, ReasonPolicy)
     ELSE IF Cardinality(source_seq_ids) # 1
     THEN Result(FALSE, ReasonSequences)
     ELSE
       LET seq_id == CHOOSE id \in source_seq_ids : TRUE
           source_seq == sequences[seq_id]
       IN IF source_seq = <<>> \/ source_seq[1].static_probe = <<>>
          THEN Result(FALSE, ReasonNotProbed)
          ELSE IF main_subimage(source_seq[1].static_probe[1]) = <<>>
          THEN Result(FALSE, ReasonNoSubimage)
          ELSE check_channels(export_spec, source_seq[1].static_probe[1],
                 main_subimage(source_seq[1].static_probe[1])[1])

\* The arguments of one call: any policy, any export specification, and a
\* project in which sequence A is absent or in any state of probing.
SelInit ==
  /\ Idle /\ prog = Unused /\ pre = Unused /\ asm = Unused /\ size = Unused
  /\ fmt = Unused
  /\ \E policy \in {"skip", "always"}, export_spec \in ExportSpecs,
        a \in Optional(SequenceSpecs) :
       sel = [compression_policy |-> policy, export_spec |-> export_spec,
              sequences |-> [id \in SeqIds |->
                               IF id = "A" THEN a ELSE <<SequenceB>>],
              at |-> "call", result |-> <<>>, copied_channels |-> <<>>]

\* run(), lines 251-255: the call.
sel_can_skip ==
  /\ sel.at = "call"
  /\ sel' = [sel EXCEPT !.at = "decided",
               !.result = <<can_skip_recompression(sel.export_spec,
                              sel.sequences, sel.compression_policy)>>]
  /\ UNCHANGED <<exportVars, prog, pre, asm, size, fmt>>

\* run(), lines 256-259, and _export_frame_direct_copy: the output file is
\* opened with the specification of the source file of the first output
\* channel's sequence and receives copy_image of it (lines 278-279, 349-371).
sel_direct_copy ==
  /\ sel.at = "decided" /\ sel.result[1].can_skip
  /\ LET source_seq_id == sel.export_spec.output_channels[1].source.sequence_id
         source_seq == sel.sequences[source_seq_id][1]
     IN sel' = [sel EXCEPT !.at = "direct_copy",
                  !.copied_channels =
                     source_seq.static_probe[1].subimages[1].channels]
  /\ UNCHANGED <<exportVars, prog, pre, asm, size, fmt>>

\* run(), lines 260-262: the standard export.
sel_parallel ==
  /\ sel.at = "decided" /\ ~sel.result[1].can_skip
  /\ sel' = [sel EXCEPT !.at = "parallel"]
  /\ UNCHANGED <<exportVars, prog, pre, asm, size, fmt>>

SelNext == sel_can_skip \/ sel_direct_copy \/ sel_parallel

SelSpec == SelInit /\ [][SelNext]_vars

\* The conditions of the call in sel, stated on its arguments.
OutChannels == sel.export_spec.output_channels
SourceIds == {OutChannels[i].source.sequence_id : i \in DOMAIN OutChannels}
TheSource == sel.sequences[CHOOSE id \in SourceIds : TRUE]
Primary == TheSource[1].static_probe[1].subimages[1]
SameIgnoringCase(a, b) == a = b \/ {a, b} = {"zip", "ZIP"}

PolicyAllows == sel.compression_policy # "always"
OneSource == Cardinality(SourceIds) = 1
HasPrimary ==
  /\ OneSource /\ TheSource # <<>> /\ TheSource[1].static_probe # <<>>
  /\ TheSource[1].static_probe[1].subimages # <<>>
SameChannelSet ==
  {Primary.channels[i] : i \in DOMAIN Primary.channels}
    = {OutChannels[i].source.channel_name : i \in DOMAIN OutChannels}
SameCompression ==
  SameIgnoringCase(IF Primary.compression = <<>> THEN "none"
                   ELSE Primary.compression[1], sel.export_spec.compression)
SameAttributes ==
  /\ Len(Primary.attributes) = Len(sel.export_spec.output_attributes)
  /\ \A i \in DOMAIN sel.export_spec.output_attributes :
       \E j \in DOMAIN Primary.attributes :
         Primary.attributes[j].name = sel.export_spec.output_attributes[i].name
NoOverride ==
  \A i \in DOMAIN OutChannels : OutChannels[i].override_format = <<>>

\* The checks that fail for the call in sel; a check on the primary
\* sub-image fails only where there is one.
Checks == {"policy", "sequences", "primary", "channels", "compression",
           "attributes", "overrides"}
Fails(c) ==
  CASE c = "policy" -> ~PolicyAllows
    [] c = "sequences" -> ~OneSource
    [] c = "primary" -> OneSource /\ ~HasPrimary
    [] c = "channels" -> HasPrimary /\ ~SameChannelSet
    [] c = "compression" -> HasPrimary /\ ~SameCompression
    [] c = "attributes" -> HasPrimary /\ ~SameAttributes
    [] c = "overrides" -> ~NoOverride
Failing == {c \in Checks : Fails(c)}
ReasonsOf(c) ==
  CASE c = "policy" -> {ReasonPolicy}
    [] c = "sequences" -> {ReasonSequences}
    [] c = "primary" -> {ReasonNotProbed, ReasonNoSubimage}
    [] c = "channels" -> {ReasonChannels}
    [] c = "compression" -> {ReasonCompression}
    [] c = "attributes" -> {ReasonAttrCount, ReasonAttrName}
    [] c = "overrides" -> {ReasonOverride}

C20_DirectCopyOnlyForIdenticalLayout ==
  (sel.at # "call" /\ sel.result[1].can_skip) =>
    /\ Len(OutChannels) = Len(Primary.channels)
    /\ \A i, j \in DOMAIN OutChannels :
         i # j => OutChannels[i].source.channel_name
                    # OutChannels[j].source.channel_name
    /\ \A i \in DOMAIN OutChannels :
         OutChannels[i].output_name = OutChannels[i].source.channel_name

MaxFrameNo == 4
MaxRefs == 2

\* sorted(set(...)) of frame numbers.
sorted(S) ==
  [i \in 1..Cardinality(S) |->
     CHOOSE f \in S : Cardinality({g \in S : g < f}) = i - 1]
Range(q) == {q[i] : i \in DOMAIN q}

\* _resolve_frame_list with the filter's end excluded.
resolve_frame_list_open(sequences, frame_range) ==
  LET all_frames == (IF sequences["A"] # <<>> THEN sequences["A"][1] ELSE <<>>)
                      \o (IF sequences["B"] # <<>> THEN sequences["B"][1] ELSE <<>>)
      unique == sorted(Range(all_frames))
      InRange(f) == frame_range[1][1] <= f /\ f < frame_range[1][2]
  IN IF \A id \in SeqIds : sequences[id] = <<>> THEN <<>>
     ELSE IF all_frames = <<>> THEN <<>>
     ELSE IF frame_range # <<>> THEN SelectSeq(unique, InRange)
     ELSE unique

\* ExportRunner._resolve_frame_list: sequences maps an id to the frame list
\* of its sequence (None for an id not in the dict), in insertion order A, B.
resolve_frame_list(sequences, frame_range) ==
  LET all_frames == (IF sequences["A"] # <<>> THEN sequences["A"][1] ELSE <<>>)
                      \o (IF sequences["B"] # <<>> THEN sequences["B"][1] ELSE <<>>)
      unique == sorted(Range(all_frames))
      InRange(f) == frame_range[1][1] <= f /\ f <= frame_range[1][2]
  IN IF \A id \in SeqIds : sequences[id] = <<>> THEN <<>>
     ELSE IF all_frames = <<>> THEN <<>>
     ELSE IF frame_range # <<>> THEN SelectSeq(unique, InRange)
     ELSE unique

\* ValidationEngine.validate_export: the issues it returns, the file-system
\* calls it makes and the directory after them.
validate_export(output_channels, output_dir, disk, sequences) ==
  LET Issue(severity, code) == [severity |-> severity, code |-> code]
      Missing(id) == sequences[id] = <<>>
      unresolved == SelectSeq(output_channels, Missing)
      channels == IF output_channels = <<>>
                  THEN <<Issue("ERROR", "NO_OUTPUT_CHANNELS")>> ELSE <<>>
      formats == [i \in DOMAIN unresolved |-> Issue("ERROR", "MISSING_SEQUENCE")]
      path == IF output_dir = "" THEN <<Issue("ERROR", "MISSING_OUTPUT_DIR")>>
              ELSE IF disk = "blocked"
              THEN <<Issue("ERROR", "CANNOT_CREATE_OUTPUT_DIR")>> ELSE <<>>
      counts == {Len(sequences[id][1]) : id \in {i \in SeqIds : ~Missing(i)}}
      policy == IF Cardinality(counts) > 1
                THEN <<Issue("WARNING", "SEQUENCE_LENGTH_MISMATCH")>> ELSE <<>>
  IN [issues |-> channels \o formats \o path \o policy,
      io |-> IF output_dir = "" THEN <<>>
             ELSE IF disk = "present" THEN <<"exists">>
             ELSE <<"exists", "mkdir">>,
      disk |-> IF output_dir # "" /\ disk = "absent" THEN "present" ELSE disk]

\* The issues that block the run, warnings included.
errors_and_warnings(issues) == issues

\* run(), line 213: errors = [i for i in issues if i.severity == ERROR].
errors(issues) ==
  LET IsError(i) == i.severity = "ERROR" IN SelectSeq(issues, IsError)

PreInit ==
  /\ Idle /\ prog = Unused /\ sel = Unused /\ asm = Unused /\ size = Unused
  /\ fmt = Unused
  /\ \E a, b \in Optional({sorted(S) : S \in SUBSET (1..MaxFrameNo)}),
        frame_range \in Optional((1..MaxFrameNo) \X (1..MaxFrameNo)),
        output_channels \in ListsOf(SeqIds, MaxRefs),
        dir \in {<<"", "present">>, <<"out", "absent">>, <<"out", "present">>,
                 <<"out", "blocked">>} :
       pre = [sequences |-> [id \in SeqIds |-> IF id = "A" THEN a ELSE b],
              frame_range |-> frame_range, output_channels |-> output_channels,
              output_dir |-> dir[1], disk |-> dir[2], at |-> "mkdir",
              io |-> <<>>, issues |-> <<>>, frame_list |-> <<>>,
              finished |-> <<>>]

\* Lines 188-195: output_dir.mkdir(parents=True, exist_ok=True).
pre_mkdir ==
  /\ pre.at = "mkdir"
  /\ pre' = IF pre.output_dir # "" /\ pre.disk = "blocked"
            THEN [pre EXCEPT !.at = "returned", !.io = Append(@, "mkdir"),
                    !.finished = <<Outcome(FALSE, MsgMkdir, 0)>>]
            ELSE [pre EXCEPT !.at = "validate", !.io = Append(@, "mkdir"),
                    !.disk = "present"]
  /\ UNCHANGED <<exportVars, prog, sel, asm, size, fmt>>

\* Lines 210-229: the validation gate.
pre_validate ==
  /\ pre.at = "validate"
  /\ LET v == validate_export(pre.output_channels, pre.output_dir, pre.disk,
                              pre.sequences)
     IN pre' = IF errors(v.issues) # <<>>
               THEN [pre EXCEPT !.at = "returned", !.issues = <<v.issues>>,
                       !.io = @ \o v.io, !.disk = v.disk,
                       !.finished = <<Outcome(FALSE, MsgBlocked, 0)>>]
               ELSE [pre EXCEPT !.at = "resolve", !.issues = <<v.issues>>,
                       !.io = @ \o v.io, !.disk = v.disk]
  /\ UNCHANGED <<exportVars, prog, sel, asm, size, fmt>>

\* Lines 231-235: frame_list = self._resolve_frame_list().
pre_resolve ==
  /\ pre.at = "resolve"
  /\ LET frame_list == resolve_frame_list(pre.sequences, pre.frame_range)
     IN pre' = IF frame_list = <<>>
               THEN [pre EXCEPT !.at = "returned", !.frame_list = <<frame_list>>,
                       !.finished = <<Outcome(FALSE, MsgNoFrames, 0)>>]
               ELSE [pre EXCEPT !.at = "select", !.frame_list = <<frame_list>>]
  /\ UNCHANGED <<exportVars, prog, sel, asm, size, fmt>>

PreNext == pre_mkdir \/ pre_validate \/ pre_resolve

PreSpec == PreInit /\ [][PreNext]_vars

C23_ZeroSequencesNoFrames ==
  (\A id \in SeqIds : pre.sequences[id] = <<>>) =>
    /\ resolve_frame_list(pre.sequences, pre.frame_range) = <<>>
    /\ pre.at = "returned" =>
         /\ pre.finished = <<Outcome(FALSE, MsgNoFrames, 0)>>
         /\ pre.io = <<>>

\* C24: after the validation gate, a run whose validation returned an ERROR
\* has ended as Blocked with no frame list resolved and no strategy
\* selected; a run whose validation returned none is not Blocked and is at,
\* or past, frame resolution.
C24_ValidationGate ==
  pre.issues # <<>> =>
    IF \E i \in DOMAIN pre.issues[1] : pre.issues[1][i].severity = "ERROR"
    THEN /\ pre.finished = <<Outcome(FALSE, MsgBlocked, 0)>>
         /\ pre.at = "returned" /\ pre.frame_list = <<>>
    ELSE /\ pre.finished # <<Outcome(FALSE, MsgBlocked, 0)>>
         /\ pre.at = "resolve" \/ pre.frame_list # <<>>

\* A run whose validation returned a warning and no error has its frames.
C24_Witness ==
  /\ pre.at = "select"
  /\ pre.issues = <<<<[severity |-> "WARNING",
                       code |-> "SEQUENCE_LENGTH_MISMATCH"]>>>>

\* C25: a run that ended as Blocked made no file-system call before.
C25_BlockedBeforeIO ==
  pre.finished = <<Outcome(FALSE, MsgBlocked, 0)>> => pre.io = <<>>

\* C26: a frame task exists, or a frame was copied, only in a run that is
\* past its directory creation and whose creation did not fail: a run that
\* reported "Could not create output directory" never starts a frame.
C26_DirectoryBeforeFrames ==
  \A r \in Runs :
    (\/ \E f \in Frames : futures[r][f] # "none"
     \/ copied[r] # {} \/ written[r] # {})
    => /\ pc[r] \notin {"none", "mkdir"}
       /\ \A i \in DOMAIN finished[r] : finished[r][i].msg # MsgMkdir

\* A frame task is running in a run that has not ended.
C26_Witness ==
  \E r \in Runs :
    /\ \E f \in Frames : futures[r][f] \in Running
    /\ finished[r] = <<>>

\* ------------------------------------------------------------- pool sizing
\* Calls of the two sizing functions: _get_optimal_worker_count for a frame
\* count and a value of os.cpu_count() or 4, and
\* _calculate_optimal_channel_workers for a channel group and a resolution,
\* as _read_channels_parallel_from_file calls it.
MaxFrameCount == 101
MaxCoreCount == 9
MaxGroup == 5
Widths == {1000, 5000, 10000, 25000, 30000}
Heights == {1000, 1001}

\* _calculate_optimal_channel_workers with the thresholds taken inclusively.
calculate_optimal_channel_workers_inclusive(num_channels, frame_resolution) ==
  LET width == IF frame_resolution = <<>> THEN 2048 ELSE frame_resolution[1][1]
      height == IF frame_resolution = <<>> THEN 1080 ELSE frame_resolution[1][2]
      pixels == width * height
  IN IF pixels >= 25000000 THEN 1
     ELSE IF pixels >= 10000000 THEN Min(2, num_channels)
     ELSE IF pixels >= 5000000 THEN Min(3, num_channels)
     ELSE Min(4, num_channels)

\* ExportRunner._calculate_optimal_channel_workers
calculate_optimal_channel_workers(num_channels, frame_resolution) ==
  LET width == IF frame_resolution = <<>> THEN 2048 ELSE frame_resolution[1][1]
      height == IF frame_resolution = <<>> THEN 1080 ELSE frame_resolution[1][2]
      pixels == width * height
  IN IF pixels > 25000000 THEN 1
     ELSE IF pixels > 10000000 THEN Min(2, num_channels)
     ELSE IF pixels > 5000000 THEN Min(3, num_channels)
     ELSE Min(4, num_channels)

SizeInit ==
  /\ Idle /\ prog = Unused /\ sel = Unused /\ pre = Unused /\ asm = Unused
  /\ fmt = Unused
  /\ \/ \E n \in 1..MaxFrameCount, c \in 1..MaxCoreCount :
          size = [fn |-> "frames", num |-> n, cores |-> c,
                  frame_resolution |-> <<>>, result |-> <<>>, mode |-> "none"]
     \/ \E n \in 1..MaxGroup, res \in Optional(Widths \X Heights) :
          size = [fn |-> "channels", num |-> n, cores |-> 0,
                  frame_resolution |-> res, result |-> <<>>, mode |-> "none"]

\* _export_frames_parallel, lines 392-393 and 413: the frame pool is created
\* with max_workers = num_workers.
size_frame_workers ==
  /\ size.fn = "frames" /\ size.result = <<>>
  /\ size' = [size EXCEPT
                !.result = <<get_optimal_worker_count(size.num, size.cores)>>,
                !.mode = "pool"]
  /\ UNCHANGED <<exportVars, prog, sel, pre, asm, fmt>>

\* _read_channels_parallel_from_file, lines 688-704: a group of one channel
\* is read directly, a group sized to one worker sequentially, any other
\* by a pool of num_workers threads.
size_channel_workers ==
  /\ size.fn = "channels" /\ size.result = <<>>
  /\ LET workers ==
           calculate_optimal_channel_workers(size.num, size.frame_resolution)
     IN size' = IF size.num = 1
                THEN [size EXCEPT !.result = <<1>>, !.mode = "direct"]
                ELSE [size EXCEPT !.result = <<workers>>,
                        !.mode = IF workers <= 1 THEN "sequential"
                                 ELSE "pool"]
  /\ UNCHANGED <<exportVars, prog, sel, pre, asm, fmt>>

SizeNext == size_frame_workers \/ size_channel_workers

SizeSpec == SizeInit /\ [][SizeNext]_vars

C30_ChannelPoolSizing ==
  (size.fn = "channels" /\ size.result # <<>> /\ size.num >= 2
   /\ size.frame_resolution # <<>>) =>
    LET P == size.frame_resolution[1][1] * size.frame_resolution[1][2]
        n == size.num
        cap == IF P > 25000000 THEN 1 ELSE IF P > 10000000 THEN 2
               ELSE IF P > 5000000 THEN 3 ELSE 4
    IN /\ size.result[1] = (IF cap < n THEN cap ELSE n)
       /\ (P = 30000000 /\ n = 4) =>
            size.result[1] = 1 /\ size.mode = "sequential"
       /\ (P = 1000000 /\ n = 4) => size.result[1] = 4

\* A group of 4 channels of a frame of exactly 25,000,000 pixels is read by
\* 2 workers.
C30_Witness ==
  /\ size.fn = "channels" /\ size.num = 4
  /\ size.frame_resolution = <<<<25000, 1000>>>>
  /\ size.result = <<2>> /\ size.mode = "pool"

\* ---------------------------------------------------------- _assemble_frame
\* _export_frame for one frame, with _assemble_frame and its channel reads
\* step by step.  An output channel is its source reference; a sequence is
\* "absent" (not in the dict), "nofile" (the file of this frame is not on
\* disk) or "file"; the probed sequences have one resolution.  A buffer slot
\* is <<>> while zero-filled, or holds the source channel copied into it.
MaxOutputs == 3
Resolutions == {<<1000, 1000>>, <<30000, 1000>>}

\* Lines 599-617: channels_by_source in insertion order, each group with the
\* output indexes of its channels.
channels_by_source(output_channels, sequences) ==
  LET Usable(i) == sequences[output_channels[i].sequence_id] = "file"
      Of(id) == {i \in DOMAIN output_channels :
                   Usable(i) /\ output_channels[i].sequence_id = id}
      firsts == sorted({sorted(Of(id))[1] : id \in {k \in SeqIds : Of(k) # {}}})
  IN [k \in DOMAIN firsts |->
        [seq |-> output_channels[firsts[k]].sequence_id,
         idxs |-> sorted(Of(output_channels[firsts[k]].sequence_id))]]

\* The results of a group stored at their positions in the group instead of
\* their output indexes.
populate_by_position(output_data, output_channels, idxs, results) ==
  [i \in DOMAIN output_data |->
     IF i \in DOMAIN idxs /\ results[idxs[i]] = "data"
     THEN <<output_channels[idxs[i]]>> ELSE output_data[i]]

\* Lines 631-636: the buffer after the results of a group are stored.
populate(output_data, output_channels, idxs, results) ==
  [i \in DOMAIN output_data |->
     IF i \in Range(idxs) /\ results[i] = "data"
     THEN <<output_channels[i]>> ELSE output_data[i]]

AsmInit ==
  /\ Idle /\ prog = Unused /\ sel = Unused /\ pre = Unused /\ size = Unused
  /\ fmt = Unused
  /\ \E output_channels \in
          ListsOf([sequence_id : SeqIds, channel_name : ChannelNames], MaxOutputs),
        sequences \in [SeqIds -> {"absent", "nofile", "file"}],
        frame_resolution \in Resolutions :
       asm = [output_channels |-> output_channels, sequences |-> sequences,
              frame_resolution |-> frame_resolution, stop_requested |-> FALSE,
              at |-> "start", output_data |-> <<>>, groups |-> <<>>,
              results |-> [i \in DOMAIN output_channels |-> "unread"],
              outcome |-> "none"]

\* ExportRunner.request_stop while the frame is in work.
asm_request_stop ==
  /\ asm.at # "done" /\ ~asm.stop_requested
  /\ asm' = [asm EXCEPT !.stop_requested = TRUE]
  /\ UNCHANGED <<exportVars, prog, sel, pre, size, fmt>>

\* _export_frame line 531 and _assemble_frame lines 576-617: stop check,
\* the first channel's sequence, the zero buffer and the grouping.
asm_enter ==
  /\ asm.at = "start"
  /\ asm' =
       IF asm.stop_requested
       THEN [asm EXCEPT !.at = "done", !.outcome = "stopped"]
       ELSE IF \/ asm.output_channels = <<>>
               \/ asm.sequences[asm.output_channels[1].sequence_id] = "absent"
       THEN [asm EXCEPT !.at = "done", !.outcome = "failed"]
       ELSE [asm EXCEPT !.at = "groups",
               !.output_data = [i \in DOMAIN asm.output_channels |-> <<>>],
               !.groups = channels_by_source(asm.output_channels, asm.sequences)]
  /\ UNCHANGED <<exportVars, prog, sel, pre, size, fmt>>

\* Lines 621-630: the stop check before the reads of the next source file.
asm_group ==
  /\ asm.at = "groups" /\ asm.groups # <<>>
  /\ asm' = IF asm.stop_requested
            THEN [asm EXCEPT !.at = "done", !.outcome = "stopped"]
            ELSE [asm EXCEPT !.at = "reading"]
  /\ UNCHANGED <<exportVars, prog, sel, pre, size, fmt>>

\* _read_channel_from_file for output index i of the group in work (lines
\* 673-726, 791-839): it raises when the stop flag is set, and otherwise
\* returns the channel or None; a raised exception leaves None in results.
\* A single channel and a group sized to one worker are read in list order,
\* a pooled group in any order.
asm_read(i) ==
  /\ asm.at = "reading"
  /\ i \in Range(asm.groups[1].idxs) /\ asm.results[i] = "unread"
  /\ \/ calculate_optimal_channel_workers(Len(asm.groups[1].idxs),
                                          <<asm.frame_resolution>>) > 1
     \/ \A j \in Range(asm.groups[1].idxs) : j < i => asm.results[j] # "unread"
  /\ IF asm.stop_requested
     THEN asm' = [asm EXCEPT !.results[i] = "raised"]
     ELSE \E read \in {"data", "None"} : asm' = [asm EXCEPT !.results[i] = read]
  /\ UNCHANGED <<exportVars, prog, sel, pre, size, fmt>>

\* Lines 631-636 storing a channel that was not read as well.
asm_populate_all ==
  /\ asm.at = "reading"
  /\ \A i \in Range(asm.groups[1].idxs) : asm.results[i] # "unread"
  /\ asm' = [asm EXCEPT !.at = "groups", !.groups = Tail(@),
               !.output_data = populate(@, asm.output_channels,
                                 asm.groups[1].idxs,
                                 [i \in DOMAIN asm.results |-> "data"])]
  /\ UNCHANGED <<exportVars, prog, sel, pre, size, fmt>>

\* Lines 631-636: the results of the group are stored.
asm_populate ==
  /\ asm.at = "reading"
  /\ \A i \in Range(asm.groups[1].idxs) : asm.results[i] # "unread"
  /\ asm' = [asm EXCEPT !.at = "groups", !.groups = Tail(@),
               !.output_data = populate(@, asm.output_channels,
                                 asm.groups[1].idxs, asm.results)]
  /\ UNCHANGED <<exportVars, prog, sel, pre, size, fmt>>

\* _export_frame handing the returned buffer to _write_exr without its
\* second stop check.
asm_return_nocheck ==
  /\ asm.at = "groups" /\ asm.groups = <<>>
  /\ asm' = [asm EXCEPT !.at = "done", !.outcome = "write_exr"]
  /\ UNCHANGED <<exportVars, prog, sel, pre, size, fmt>>

\* Line 646 and _export_frame lines 545-550: the buffer is returned and,
\* unless the stop flag is set, handed to _write_exr.
asm_return ==
  /\ asm.at = "groups" /\ asm.groups = <<>>
  /\ asm' = [asm EXCEPT !.at = "done",
               !.outcome = IF asm.stop_requested THEN "stopped"
                           ELSE "write_exr"]
  /\ UNCHANGED <<exportVars, prog, sel, pre, size, fmt>>

AsmNext ==
  \/ asm_request_stop \/ asm_enter \/ asm_group
  \/ \E i \in 1..MaxOutputs : asm_read(i)
  \/ asm_populate \/ asm_return

AsmSpec == AsmInit /\ [][AsmNext]_vars

\* C27: a frame that ended with the stop flag not set, and whose first
\* channel names a sequence of the run, was handed to _write_exr; every
\* channel whose file is missing or whose read failed is zero-filled in the
\* buffer and every other channel holds its source channel.
C27_ChannelErrorsAbsorbed ==
  (/\ asm.at = "done" /\ ~asm.stop_requested
   /\ asm.output_channels # <<>>
   /\ asm.sequences[asm.output_channels[1].sequence_id] # "absent")
  => /\ asm.outcome = "write_exr"
     /\ \A i \in DOMAIN asm.output_channels :
          asm.output_data[i] =
            IF /\ asm.sequences[asm.output_channels[i].sequence_id] = "file"
               /\ asm.results[i] = "data"
            THEN <<asm.output_channels[i]>> ELSE <<>>

\* A frame of three channels reached _write_exr with the second channel's
\* read failed, the third channel's file missing and the first in place.
C27_Witness ==
  /\ asm.outcome = "write_exr" /\ Len(asm.output_channels) = 3
  /\ asm.results[2] = "None"
  /\ asm.sequences[asm.output_channels[3].sequence_id] = "nofile"
  /\ asm.output_data[1] = <<asm.output_channels[1]>>
  /\ asm.output_data[2] = <<>> /\ asm.output_data[3] = <<>>

\* C28: a frame with an output channel whose sequence is not in the dict,
\* at whatever position, that ended with the stop flag not set was handed
\* to _write_exr with that channel's slot empty.
C28_MissingSequenceNotFatal ==
  \A i \in DOMAIN asm.output_channels :
    (/\ asm.at = "done" /\ ~asm.stop_requested
     /\ asm.sequences[asm.output_channels[i].sequence_id] = "absent")
    => asm.outcome = "write_exr" /\ asm.output_data[i] = <<>>

\* C31: whatever the order in which the reads of a frame complete, a buffer
\* slot holds nothing but the source channel of its own output channel, and
\* once a group is stored the slots of its channels hold exactly the reads
\* that returned data, as reading them one by one in output order would.
C31_AssemblyDeterministic ==
  \A i \in DOMAIN asm.output_data :
    /\ asm.output_data[i] # <<>> =>
         asm.output_data[i] = <<asm.output_channels[i]>>
    /\ (asm.at \in {"groups", "done"}
        \/ \A k \in DOMAIN asm.groups : i \notin Range(asm.groups[k].idxs))
       => (asm.output_data[i] # <<>> <=> asm.results[i] = "data")

\* The first source's channel is stored while, in the pooled group of the
\* second source, the read of output 3 has returned before that of output 2.
C31_Witness ==
  /\ asm.at = "reading" /\ Len(asm.output_channels) = 3
  /\ asm.output_data[1] = <<asm.output_channels[1]>>
  /\ asm.groups[1].idxs = <<2, 3>>
  /\ asm.results[3] = "data" /\ asm.results[2] = "unread"

\* C36: a frame of which a channel read was aborted by the stop flag, or of
\* which a group of reads was skipped for it, is never handed to _write_exr.
C36_CancelledFrameNotWritten ==
  (\/ \E i \in DOMAIN asm.results : asm.results[i] = "raised"
   \/ asm.at = "done" /\ asm.groups # <<>>)
  => asm.outcome # "write_exr"

\* _assemble_frame returned a buffer with an aborted read, and the frame
\* ended as stopped at the check before the write.
C36_Witness ==
  /\ asm.at = "done" /\ asm.outcome = "stopped" /\ asm.groups = <<>>
  /\ \E i \in DOMAIN asm.results : asm.results[i] = "raised"

\* The checks in the order of the function's returns (lines 115-177).
CheckOrder == <<"policy", "sequences", "primary", "channels", "compression",
                "attributes", "overrides">>

\* C34: when checks fail for the call in sel, the returned reason is a
\* reason of the earliest failing check in the order policy, single source
\* sequence, probe metadata, channel set, compression, attributes, override.
C34_FirstFailingCheckReported ==
  (sel.at # "call" /\ Failing # {}) =>
    \E k \in DOMAIN CheckOrder :
      /\ Fails(CheckOrder[k])
      /\ \A j \in 1..(k - 1) : ~Fails(CheckOrder[j])
      /\ sel.result[1].reason \in ReasonsOf(CheckOrder[k])

\* A call for which the channel set, the compression and the overrides all
\* fail returned the channel-set reason.
C34_Witness ==
  /\ sel.at = "parallel"
  /\ {"channels", "compression", "overrides"} \subseteq Failing
  /\ sel.result[1].reason = ReasonChannels


\* ------------------------------------------------ filename patterns
\* A frame number is formatted into a pattern with one token and the file
\* is then looked for by frame discovery.  Strings are sequences of
\* one-character strings.
MaxWidth == 4
MaxFrame == 12

\* str(frame) of a non-negative int: its decimal digits.
RECURSIVE str(_)
str(n) ==
  LET digits == <<"0", "1", "2", "3", "4", "5", "6", "7", "8", "9">>
  IN IF n < 10 THEN <<digits[n + 1]>>
     ELSE str(n \div 10) \o <<digits[(n % 10) + 1]>>

\* int(text) of a run of decimal digits.
RECURSIVE int(_)
int(text) ==
  LET digits == <<"0", "1", "2", "3", "4", "5", "6", "7", "8", "9">>
      n == Len(text)
  IN IF n = 0 THEN 0
     ELSE int(SubSeq(text, 1, n - 1)) * 10
            + ((CHOOSE k \in 1..10 : digits[k] = text[n]) - 1)

\* str.zfill(width) of an unsigned number: zeros on the left up to width,
\* nothing cut when the text is longer.
zfill(text, width) ==
  IF Len(text) >= width THEN text
  ELSE [i \in 1..(width - Len(text)) |-> "0"] \o text

\* The scan of re.sub(r"%0(\d+)d", repl, text): the text cut, from the left,
\* into the matches and the single characters between them.
re_sub_printf(text) ==
  LET n == Len(text)
      run_end[i \in 1..(n + 1)] ==
        IF i <= n /\ text[i] \in {"0", "1", "2", "3", "4", "5", "6", "7",
                                   "8", "9"}
        THEN run_end[i + 1] ELSE i - 1
      out[i \in 1..(n + 1)] ==
        IF i > n THEN <<>>
        ELSE IF /\ text[i] = "%" /\ i + 2 <= n /\ text[i + 1] = "0"
                /\ run_end[i + 2] >= i + 2 /\ run_end[i + 2] < n
                /\ text[run_end[i + 2] + 1] = "d"
        THEN <<[match |-> TRUE, text |-> SubSeq(text, i, run_end[i + 2] + 1)]>>
               \o out[run_end[i + 2] + 2]
        ELSE <<[match |-> FALSE, text |-> <<text[i]>>]>> \o out[i + 1]
  IN out[1]

\* The scan of re.sub(r"#+", repl, text): the maximal runs of '#' and the
\* single characters between them.
re_sub_hashes(text) ==
  LET n == Len(text)
      run_end[i \in 1..(n + 1)] ==
        IF i <= n /\ text[i] = "#" THEN run_end[i + 1] ELSE i - 1
      out[i \in 1..(n + 1)] ==
        IF i > n THEN <<>>
        ELSE IF text[i] = "#"
        THEN <<[match |-> TRUE, text |-> SubSeq(text, i, run_end[i])]>>
               \o out[run_end[i] + 1]
        ELSE <<[match |-> FALSE, text |-> <<text[i]>>]>> \o out[i + 1]
  IN out[1]

\* The result of re.sub: the pieces put together again.
join(pieces) ==
  LET out[i \in 1..(Len(pieces) + 1)] ==
        IF i > Len(pieces) THEN <<>> ELSE pieces[i] \o out[i + 1]
  IN out[1]

\* SequencePathPattern.format: group 1 of the printf token is its width, the
\* length of a run of '#' is its width.
format(pattern, frame) ==
  LET printf == re_sub_printf(pattern)
      result == join([i \in DOMAIN printf |->
                  IF printf[i].match
                  THEN zfill(str(frame),
                             int(SubSeq(printf[i].text, 3,
                                        Len(printf[i].text) - 1)))
                  ELSE printf[i].text])
      hashes == re_sub_hashes(result)
  IN join([i \in DOMAIN hashes |->
       IF hashes[i].match THEN zfill(str(frame), Len(hashes[i].text))
       ELSE hashes[i].text])

\* ExportRunner._format_filename: the same two substitutions.
format_filename(pattern, frame) ==
  LET printf == re_sub_printf(pattern)
      result == join([i \in DOMAIN printf |->
                  IF printf[i].match
                  THEN zfill(str(frame),
                             int(SubSeq(printf[i].text, 3,
                                        Len(printf[i].text) - 1)))
                  ELSE printf[i].text])
      hashes == re_sub_hashes(result)
  IN join([i \in DOMAIN hashes |->
       IF hashes[i].match THEN zfill(str(frame), Len(hashes[i].text))
       ELSE hashes[i].text])

\* re.escape: a backslash before every character that is special in a
\* regular expression; '#' is one of them, '%', '_', letters and digits
\* are not.
re_escape(text) ==
  LET special == {".", "#", "\\", "(", ")", "+", "^", "$"}
      out[i \in 1..(Len(text) + 1)] ==
        IF i > Len(text) THEN <<>>
        ELSE (IF text[i] \in special THEN <<"\\", text[i]>>
              ELSE <<text[i]>>) \o out[i + 1]
  IN out[1]

\* _pattern_to_regex: the pattern is escaped first, then both token forms
\* are replaced by the group (\d+) in the escaped text.
pattern_to_regex(pattern) ==
  LET group == <<"(", "\\", "d", "+", ")">>
      printf == re_sub_printf(re_escape(pattern))
      escaped == join([i \in DOMAIN printf |->
                   IF printf[i].match THEN group ELSE printf[i].text])
      hashes == re_sub_hashes(escaped)
  IN <<"^">>
       \o join([i \in DOMAIN hashes |->
            IF hashes[i].match THEN group ELSE hashes[i].text])
       \o <<"$">>

\* re.compile on the syntax _pattern_to_regex can produce: anchors, escaped
\* and plain literals, \d+ and parentheses.  The result is <<code>>, or <<>>
\* when re.error is raised (a ')' without its '(', a '(' never closed, a '+'
\* with nothing to repeat, a backslash at the end).
re_compile(regex) ==
  LET n == Len(regex)
      fail == [ok |-> FALSE, code |-> <<>>]
      cons(e, rest) == IF rest.ok THEN [rest EXCEPT !.code = <<e>> \o @]
                       ELSE fail
      parse[i \in 1..(n + 1), depth \in 0..n] ==
        IF i > n THEN [ok |-> depth = 0, code |-> <<>>]
        ELSE IF regex[i] = "\\"
        THEN IF i = n THEN fail
             ELSE IF regex[i + 1] = "d"
             THEN IF i + 2 <= n /\ regex[i + 2] = "+"
                  THEN cons([op |-> "digits", c |-> "+"], parse[i + 3, depth])
                  ELSE cons([op |-> "digits", c |-> "1"], parse[i + 2, depth])
             ELSE cons([op |-> "literal", c |-> regex[i + 1]],
                       parse[i + 2, depth])
        ELSE IF regex[i] = "(" THEN
          cons([op |-> "open", c |-> "("], parse[i + 1, depth + 1])
        ELSE IF regex[i] = ")" THEN
          IF depth = 0 THEN fail
          ELSE cons([op |-> "close", c |-> ")"], parse[i + 1, depth - 1])
        ELSE IF regex[i] = "+" THEN fail
        ELSE IF regex[i] \in {"^", "$"} THEN
          cons([op |-> "at", c |-> regex[i]], parse[i + 1, depth])
        ELSE cons([op |-> "literal", c |-> regex[i]], parse[i + 1, depth])
      compiled == parse[1, 0]
  IN IF compiled.ok THEN <<compiled.code>> ELSE <<>>

\* SequenceDiscovery._process_frames_batch: regex.match on each filename and
\* int(match.group(1)) of those that match; a match without group 1 raises
\* IndexError and is skipped.
process_frames_batch(filenames, code) ==
  LET n == Len(code)
      digit == {"0", "1", "2", "3", "4", "5", "6", "7", "8", "9"}
      \* spans <<first, last>> of group 1 over the ways code[k..] matches
      \* text from position p on; <<0, 0>> when no group takes part
      spans(text) ==
        LET len == Len(text)
            m[k \in 1..(n + 1), p \in 1..(len + 1)] ==
              IF k > n THEN {<<0, 0>>}
              ELSE IF code[k].op = "at" THEN
                IF (code[k].c = "^" /\ p = 1) \/ (code[k].c = "$" /\ p = len + 1)
                THEN m[k + 1, p] ELSE {}
              ELSE IF code[k].op = "open" THEN
                {<<p, r[2]>> : r \in m[k + 1, p]}
              ELSE IF code[k].op = "close" THEN
                {<<r[1], p - 1>> : r \in m[k + 1, p]}
              ELSE IF code[k].op = "digits" THEN
                UNION {m[k + 1, q] :
                         q \in {q \in (p + 1)..(len + 1) :
                                  /\ \A j \in p..(q - 1) : text[j] \in digit
                                  /\ code[k].c = "+" \/ q = p + 1}}
              ELSE IF p <= len /\ text[p] = code[k].c THEN m[k + 1, p + 1]
              ELSE {}
        IN m[1, 1]
      \* the greedy match: the longest group
      group1(text) ==
        CHOOSE r \in spans(text) : \A o \in spans(text) : o[2] <= r[2]
  IN {int(SubSeq(text, group1(text)[1], group1(text)[2])) :
        text \in {t \in filenames : spans(t) # {} /\ group1(t)[1] # 0}}

\* SequenceDiscovery.discover_frames over a directory holding filenames
\* (fewer than 100 files, one sequential batch): the frames found, or
\* raised when re.compile raises.
discover_frames(pattern_str, filenames) ==
  LET regex == re_compile(pattern_to_regex(pattern_str))
  IN IF regex = <<>> THEN [raised |-> TRUE, frames |-> {}]
     ELSE [raised |-> FALSE,
           frames |-> process_frames_batch(filenames, regex[1])]

\* The token of a pattern: printf style "%0<width>d" or width times '#'.
Token(style, width) ==
  IF style = "printf" THEN <<"%", "0">> \o str(width) \o <<"d">>
  ELSE [i \in 1..width |-> "#"]

FmtInit ==
  /\ Idle /\ prog = Unused /\ sel = Unused /\ pre = Unused /\ asm = Unused
  /\ size = Unused
  /\ \E style \in {"printf", "hash"}, width \in 1..MaxWidth,
        frame \in 0..MaxFrame, stem \in {<<"a", ".">>, <<"v", "2", "_">>} :
       fmt = [style |-> style, width |-> width, stem |-> stem,
              ext |-> <<".", "e", "x", "r">>,
              pattern |-> stem \o Token(style, width) \o <<".", "e", "x", "r">>,
              frame |-> frame, at |-> "format", filename |-> <<>>,
              raised |-> FALSE, frames |-> {}]

\* _export_frame, line 538: the output file of the frame is named by
\* _format_filename.
fmt_output ==
  /\ fmt.at = "format"
  /\ fmt' = [fmt EXCEPT !.filename = format_filename(fmt.pattern, fmt.frame),
                        !.at = "discover"]
  /\ UNCHANGED <<exportVars, prog, sel, pre, asm, size>>

\* Lines 336 and 608: a source file of the frame is named by pattern.format.
fmt_source ==
  /\ fmt.at = "format"
  /\ fmt' = [fmt EXCEPT !.filename = format(fmt.pattern, fmt.frame),
                        !.at = "discover"]
  /\ UNCHANGED <<exportVars, prog, sel, pre, asm, size>>

\* main_window.py, line 402: the directory holding the file is scanned with
\* the same pattern.
fmt_discover ==
  /\ fmt.at = "discover"
  /\ LET found == discover_frames(fmt.pattern, {fmt.filename})
     IN fmt' = [fmt EXCEPT !.raised = found.raised, !.frames = found.frames,
                           !.at = "done"]
  /\ UNCHANGED <<exportVars, prog, sel, pre, asm, size>>

FmtNext == fmt_output \/ fmt_source \/ fmt_discover

FmtSpec == FmtInit /\ [][FmtNext]_vars

\* C32: formatting frame f into a pattern with one token of width w gives
\* the pattern with the token replaced by f zero-padded to w, and frame
\* discovery with the same pattern finds exactly f in that file name.
C32_FilenameRoundTrip ==
  /\ fmt.at # "format" =>
       fmt.filename = fmt.stem \o zfill(str(fmt.frame), fmt.width) \o fmt.ext
  /\ fmt.at = "done" => ~fmt.raised /\ fmt.frames = {fmt.frame}


C35_NoWriteEntryAfterFinished ==
  [][\A r \in Runs, f \in Frames :
       (Emitted(r) /\ futures[r][f] # "in_write")
         => futures'[r][f] # "in_write"]_vars


\* C37: when the manager accepts a start_export and constructs a new
\* runner, no frame worker of an earlier run is still running a task.
C37_NoOverlapOfRuns ==
  [][constructed' # constructed
       => \A r \in Runs : RunningTasks(r) = {}]_vars


\* C38: a worker leaving the critical section of _write_exr, by a successful
\* write or by a failed create, open or write_image, leaves the lock free;
\* hence a worker waiting for the lock waits only while another worker is
\* inside the section, and the lock is never held with nobody inside.
C38_LockReleasedOnEveryExit ==
  /\ [][\A r \in Runs, f \in Frames :
          (futures[r][f] = "in_write" /\ futures'[r][f] # "in_write")
            => ~oiio_lock']_vars
  /\ [](\A r \in Runs, f \in Frames :
          (futures[r][f] = "write" /\ oiio_lock)
            => \E t \in InWrite : t # <<r, f>>)

\* The write of one frame has failed and its handle is not yet closed, and
\* another worker of the run is inside the critical section.
C38_Witness ==
  \E r \in Runs : \E f, g \in Frames :
    /\ futures[r][f] = "closing"
    /\ futures[r][g] = "in_write"
    /\ oiio_lock


\* C39: the stop flag of a runner is false when the runner is constructed
\* and false for every runner not yet constructed; while the runner exists
\* the flag never goes back to false; and it becomes true only by
\* request_stop on the current runner, a step that changes nothing else, the
\* flags of the other runners included.
C39_StopFlagMonotonicPerRun ==
  /\ [](\A r \in Runs : r > constructed => ~stop_requested[r])
  /\ [][\A r \in Runs :
          /\ (constructed # r /\ constructed' = r) => ~stop_requested'[r]
          /\ (stop_requested[r] /\ pc'[r] # "released") => stop_requested'[r]
          /\ (~stop_requested[r] /\ stop_requested'[r])
               => /\ current_runner = r
                  /\ stop_requested' = request_stop(stop_requested, r)
                  /\ UNCHANGED <<mgrVars, runVars, taskVars, finished, late>>
       ]_vars

\* The first run was stopped and its runner still exists; the second runner
\* has just been constructed with its flag false.
C39_Witness ==
  /\ constructed = 2 /\ current_runner = 2
  /\ stop_requested[1] /\ pc[1] \notin {"none", "released"}
  /\ ~stop_requested[2] /\ pc[2] = "mkdir"


\* C40: every AtomicProgress of a run is created with total >= 1, the
\* length of the frame list it was handed (all frames, or the frames from
\* the failed one on after a direct copy failed), and keeps that total, so
\* increment and get_percent never divide by zero.
C40_TrackerTotalPositive ==
  /\ [](\A r \in Runs :
          pc[r] \in (DirectPcs \cup ParallelPcs) \ {"dc_enter", "par_enter"}
            => /\ progress[r].total >= 1
               /\ progress[r].total =
                    IF pc[r] \in DirectPcs THEN nframes[r]
                    ELSE nframes[r] - first[r] + 1)
  /\ [][\A r \in Runs :
          (progress'[r] # progress[r] /\ pc'[r] # "released")
            => progress'[r].total >= 1]_vars

\* A direct copy failed at the last of several frames and the parallel
\* exporter created its tracker over that one frame.
C40_Witness ==
  \E r \in Runs :
    /\ pc[r] = "submit" /\ first[r] > 1 /\ first[r] = nframes[r]
    /\ progress[r] = AtomicProgress(1)
====
